---- MODULE Spec2Model ----
(***************************************************************************)
(* Model of the telescope indexer's sync engine:                           *)
(*   - StartSyncBlockHeightsGenerator and StartSyncBlocksGenerator with    *)
(*     the writer tasks of Indexer::start_sync (src/bitcoin/indexer.rs),   *)
(*   - the Shutdown latch (src/shutdown.rs).                               *)
(* Spec         : the sync pipeline, any database, node height may change. *)
(* SpecCold     : the sync pipeline on an empty database, fixed node.      *)
(* SpecShutdown : the shutdown latch with concurrent tasks.                *)
(* SpecDelay    : the latch with tasks that call delay_for or wait.        *)
(* SpecSignals  : the signal listener of subscribe() (src/signals.rs).     *)
(* SpecValidate : Bitcoind::validate (src/bitcoin/bitcoind/mod.rs).        *)
(* SpecStart    : Indexer::start with the listener and the exit of main.   *)
(* SpecRpc      : get_block_by_hash of the RPC and REST clients.           *)
(* SpecDb       : DataBase::validate (src/db/database.rs) over restarts.   *)
(* SpecWindow   : the sync pipeline with more heights than the window and  *)
(*                the notification channel hold.                           *)
(* SpecLocks    : the mutexes of the prefetcher and the status lock.       *)
(* SpecHex      : H256::deserialize_hex and hex::encode (fixed_hash.rs).   *)
(***************************************************************************)
EXTENDS Integers, Sequences, FiniteSets, TLC

\* ------------------------------------------------------------ bounds
\* persisted block heights are drawn from 0..MaxDbHeight
MaxDbHeight == 3
\* the node reports heights in 0..MaxNodeHeight
MaxNodeHeight == 6
\* the configured start of the sync range is in 0..MaxSyncFrom
MaxSyncFrom == 2
\* sync_threads is in 1..MaxSyncThreads
MaxSyncThreads == 2
\* frontier heights above HeightCap are not pulled (only reachable when
\* node_height - 3 wrapped around)
HeightCap == 3
\* number of tasks using the shutdown latch
NumTasks == 3
\* number of Shutdown::set calls
MaxTrips == 2
\* signal kinds that are delivered (of SIGINT, SIGTERM, SIGHUP, SIGQUIT)
MaxSignalKinds == 2
\* OS signals delivered to the process in one run
MaxSignals == 2
\* "warming up" answers of the node during one validate
MaxRetries == 2
\* block heights the node reports in blockchain_info
MaxInfoBlocks == 2
\* highest height the node reports while the whole indexer runs
MaxStartNodeHeight == 4
\* RPC calls one client makes
MaxRequests == 3
\* distinct block hashes
MaxHashes == 2
\* process starts on one database
MaxRuns == 2
\* heights 0..MaxWindowHeight are ready for import in the runs that fill the
\* prefetch window
MaxWindowHeight == 4
\* the notification channel holds 2^k messages, k in 1..MaxCapacityLog, in
\* the runs that fill the prefetch window (2^7 in the program)
MaxCapacityLog == 2
\* writer tasks in the runs that follow the locks
LockConsumers == 2
\* heights the generator yields in the runs that follow the locks
LockHeights == 5
\* bytes of a hash (32 in H256)
HashBytes == 2
\* texts handed to the decoder have 0..MaxTextLen characters
MaxTextLen == 5

\* ------------------------------------------------- program constants
\* let end_height = node_height - 3;
ConfirmationDepth == 3
\* let prefetch_size = self.sync_threads + 2;
PrefetchExtra == 2
\* broadcast::channel(128)
ChannelCapacity == 128
\* buffers of a broadcast channel have a power of two as their length
ScaledCapacities == {2 ^ k : k \in 1..MaxCapacityLog}
\* heights are u32, held here as two 16-bit halves
U16Modulus == 65536

VARIABLES
    \* inputs of a run
    db_bestblock,        \* height of the best block read from the database, -1 if none
    initial_sync,        \* db.get_stage().0 == "#created"
    service_sync_from,   \* IndexerStatus.service_sync_from
    sync_threads,        \* Indexer.sync_threads
    overflow_checks,     \* build with overflow checks (debug) or without
    capacity,            \* length of the buffer of blocks_tx
    \* IndexerStatus
    node_syncing_height,
    node_syncing_hash,
    node_info,           \* the BlockchainInfo the refresher got last from the node
    \* StartSyncBlockHeightsGenerator
    finished, skipped_heights, next_height,
    \* StartSyncBlocksGenerator
    blocks,              \* HashMap<u32, Option<result>>
    blocks_lock,         \* holder of the blocks mutex between two steps
    rx,                  \* per writer: unread messages of its receiver
    \* Indexer::start_sync
    sync_pc, prefetched, pc, cur,
    \* history
    emitted,             \* heights returned by the height generator
    lastPull,            \* outcome of the last pull of the height generator
    fetching,            \* heights whose spawned fetch task has not written its result
    hit,                 \* the unreachable! assertions of prefetch that were hit
    returned,            \* heights of the blocks returned by next()
    pushed,              \* heights push_block was invoked with
    \* Shutdown
    notified,            \* Shutdown.notified
    permit,              \* Notify holds a stored permit
    waiters,             \* Notify's queue of suspended waiters
    spc,                 \* per task: position
    check_res,           \* per task: result of its last is_recv
    cancels,             \* per task: ShutdownSignal values received from wait
    trips,               \* number of completed Shutdown::set calls
    \* Shutdown::delay_for
    delay_timer,         \* per task: the Delay future of its delay_for call
    delay_res,           \* per task: result of its delay_for call
    tripped_in_time,     \* per task: the latch was tripped when its timer elapsed
    \* ShutdownSignals and the listener task of subscribe()
    streams,             \* ShutdownSignals.streams: the kinds registered, in order
    sig_ready,           \* kinds whose stream holds a notification
    sig_pc,              \* position of the listener task
    received,            \* items the listener got from s.next()
    delivered,           \* OS signals delivered so far
    \* Bitcoind and Bitcoind::validate
    has_rest,            \* Bitcoind.rest is Some
    chain_arg,           \* Bitcoind.chain
    v_pc,                \* position of validate
    v_rpc,               \* blockchain_info request of the initialization wait
    v_retries,           \* code -28 answers seen by the initialization wait
    v_init,              \* outcome of validate_client_initialized
    chk,                 \* per check of try_join!: its request or its result
    sn_rpc, sn_rest,     \* the two requests of validate_clients_to_same_node
    check_reqs,          \* checks that have issued a request
    v_res,               \* result of validate
    \* Indexer::start
    start_pc,            \* position of start
    db_valid,            \* outcome of db.validate in connect
    node_valid,          \* outcome of bitcoind.validate in connect
    connect_res,         \* result of connect
    seeded,              \* the initial update_status has completed
    st_pc,               \* position of start_status_update_loop
    st_res,              \* error start_status_update_loop returned
    start_res,           \* result of start
    \* the process
    exit_code,           \* -1 while the process runs
    exit_by,             \* who called std::process::exit
    \* RPCClient, RESTClient and a get_block_by_hash request
    req_id,              \* RPCClient.req_id
    rpc_pc,              \* position of the request
    bh_hash,             \* the hash requested
    rpc_data,            \* what RPCClient::request returned last
    rest_data,           \* what the REST request returned last
    call_ret,            \* result of the last RPCClient::call
    bh_ret,              \* result of the last get_block_by_hash
    \* the PostgreSQL database, DataBase and DataBase::validate
    pg_version,          \* version the server reports
    cfg,                 \* DataBase.coin, chain, version and the extra data
    db,                  \* the committed schema, schema_info table and its rows
    tx,                  \* the same as seen inside the open transaction
    stage,               \* DataBase.stage.0
    d_pc,                \* position of validate
    d_res,               \* result of validate
    d_touched,           \* this run has issued a query on the schema
    d_first,             \* this run found no schema_info table
    runs,                \* process starts so far
    \* H256 and its hex form (fixed_hash.rs)
    hx_hash,             \* the hash that was encoded, if the text came from one
    hx_str,              \* the text handed to visit_str
    hx_ret,              \* what deserialize_hex returned
    hx_pc,               \* "hash", "str" or "done"
    \* the locks of StartSyncBlocksGenerator and of IndexerStatus
    lk_pc,               \* position of every task
    lk_held,             \* holder of each mutex, -1 when free
    lk_rw,               \* status lock: read guards, write guard, queued requests
    lk_gen,              \* height generator: heights left, finished, prefetches of new()
    lk_slots,            \* slot of the k-th pulled height in the pending map
    lk_rx                \* a notification is unread by the receiver of the consumer

syncVars == <<db_bestblock, initial_sync, service_sync_from, sync_threads, overflow_checks, capacity,
              node_syncing_height, node_syncing_hash, node_info,
              finished, skipped_heights, next_height,
              blocks, blocks_lock, rx, sync_pc, prefetched, pc, cur,
              emitted, lastPull, fetching, hit, returned, pushed>>

shutdownVars == <<notified, permit, waiters, spc, check_res, cancels, trips>>

delayVars == <<delay_timer, delay_res, tripped_in_time>>

signalVars == <<streams, sig_ready, sig_pc, received, delivered>>

processVars == <<exit_code, exit_by>>

validateVars == <<has_rest, chain_arg, v_pc, v_rpc, v_retries, v_init, chk, sn_rpc, sn_rest,
                  check_reqs, v_res>>

startVars == <<start_pc, db_valid, node_valid, connect_res, seeded, st_pc, st_res, start_res>>

rpcVars == <<req_id, rpc_pc, bh_hash, rpc_data, rest_data, call_ret, bh_ret>>

schemaVars == <<pg_version, cfg, db, tx, stage, d_pc, d_res, d_touched, d_first, runs>>

hexVars == <<hx_hash, hx_str, hx_ret, hx_pc>>

lockVars == <<lk_pc, lk_held, lk_rw, lk_gen, lk_slots, lk_rx>>

ioVars == <<rpcVars, schemaVars, hexVars, lockVars>>

extVars == <<delayVars, signalVars, processVars, validateVars, startVars, ioVars>>

vars == <<syncVars, shutdownVars, extVars>>

\* ------------------------------------------------------------ helpers
Max(a, b) == IF a >= b THEN a ELSE b

SetMax(S) == CHOOSE x \in S : \A y \in S : y <= x

SetMin(S) == CHOOSE x \in S : \A y \in S : x <= y

Last(s) == s[Len(s)]

Front(s) == SubSeq(s, 1, Len(s) - 1)

Range(s) == {s[i] : i \in 1..Len(s)}

StrictlyAscending(s) == \A i \in 1..Len(s) : \A j \in 1..Len(s) : i < j => s[i] < s[j]

RECURSIVE AscendingSeq(_)
\* the elements of a finite set of numbers as an ascending sequence
AscendingSeq(S) ==
    IF S = {} THEN <<>>
    ELSE LET m == SetMax(S) IN Append(AscendingSeq(S \ {m}), m)

Writers == 1..MaxSyncThreads

\* the heights a run can meet
Heights == 0..Max(HeightCap, MaxDbHeight)

\* ------------------------------------------------- database gateway
\* blocksSelectBestInfo: the row with the maximum height, if any
get_bestblock_info(d) == IF d = {} THEN -1 ELSE SetMax(d)

\* blocksSelectSkippedHeights: heights in [start, max persisted] without a
\* row in blocks, ascending
blocksSelectSkippedHeights(d, start) ==
    IF d = {} THEN <<>>
    ELSE AscendingSeq({h \in start..SetMax(d) : h \notin d})

\* DataBase::get_skipped_block_heights pushes the rows in the order received
get_skipped_block_heights(d, start) == blocksSelectSkippedHeights(d, start)

\* ------------------------------------------- height generator (4.D)
\* map_or_else(|| 0, |(height, _hash)| height + 1)
db_next_height(best) == IF best = -1 THEN 0 ELSE best + 1

\* StartSyncBlockHeightsGenerator::new
NewSkippedHeights(d, start, initial) ==
    IF initial THEN get_skipped_block_heights(d, start) ELSE <<>>

\* a cursor that starts after the best block whatever the start of the range
NewNextHeightDbOnly(best, start) == db_next_height(best)

\* next_height: std::cmp::max(start_height, db_next_height)
NewNextHeight(best, start) == Max(start, db_next_height(best))

\* let end_height = node_height - 3; on u32: an overflow-checked build aborts,
\* any other build wraps around
SubOverflows(node_height) == node_height < ConfirmationDepth

\* node_height - 3 modulo 2^32, as [hi, lo] with value hi * 2^16 + lo
EndHeight(node_height) ==
    IF SubOverflows(node_height)
    THEN [hi |-> U16Modulus - 1, lo |-> U16Modulus - (ConfirmationDepth - node_height)]
    ELSE [hi |-> (node_height - ConfirmationDepth) \div U16Modulus,
          lo |-> (node_height - ConfirmationDepth) % U16Modulus]

\* self.next_height <= end_height
LeqEndHeight(next, end) ==
    \/ next \div U16Modulus < end.hi
    \/ (next \div U16Modulus = end.hi /\ next % U16Modulus <= end.lo)

NoneRet == [tag |-> "None", h |-> 0]

PanicRet == [tag |-> "Panic", h |-> 0]

SomeRet(h) == [tag |-> "Some", h |-> h]

\* HeightsNext with the frontier test written next_height < end_height
HeightsNextStrict(fin, skipped, next, node_height, checks) ==
    IF fin
    THEN [ret |-> NoneRet, finished |-> fin, skipped_heights |-> skipped, next_height |-> next]
    ELSE IF skipped # <<>>
    THEN [ret |-> SomeRet(Last(skipped)), finished |-> fin,
          skipped_heights |-> Front(skipped), next_height |-> next]
    ELSE IF SubOverflows(node_height) /\ checks
    THEN [ret |-> PanicRet, finished |-> fin, skipped_heights |-> skipped, next_height |-> next]
    ELSE IF LeqEndHeight(next + 1, EndHeight(node_height))
    THEN [ret |-> SomeRet(next), finished |-> fin,
          skipped_heights |-> skipped, next_height |-> next + 1]
    ELSE [ret |-> NoneRet, finished |-> TRUE, skipped_heights |-> skipped, next_height |-> next]

\* HeightsNext without the test of the finished flag
HeightsNextRestartable(fin, skipped, next, node_height, checks) ==
    IF skipped # <<>>
    THEN [ret |-> SomeRet(Last(skipped)), finished |-> fin,
          skipped_heights |-> Front(skipped), next_height |-> next]
    ELSE IF SubOverflows(node_height) /\ checks
    THEN [ret |-> PanicRet, finished |-> fin, skipped_heights |-> skipped, next_height |-> next]
    ELSE IF LeqEndHeight(next, EndHeight(node_height))
    THEN [ret |-> SomeRet(next), finished |-> fin,
          skipped_heights |-> skipped, next_height |-> next + 1]
    ELSE [ret |-> NoneRet, finished |-> TRUE, skipped_heights |-> skipped, next_height |-> next]

\* StartSyncBlockHeightsGenerator::next: the value returned and the fields after
HeightsNext(fin, skipped, next, node_height, checks) ==
    IF fin
    THEN [ret |-> NoneRet, finished |-> fin, skipped_heights |-> skipped, next_height |-> next]
    ELSE IF skipped # <<>>
    THEN [ret |-> SomeRet(Last(skipped)), finished |-> fin,
          skipped_heights |-> Front(skipped), next_height |-> next]
    ELSE IF SubOverflows(node_height) /\ checks
    THEN [ret |-> PanicRet, finished |-> fin, skipped_heights |-> skipped, next_height |-> next]
    ELSE IF LeqEndHeight(next, EndHeight(node_height))
    THEN [ret |-> SomeRet(next), finished |-> fin,
          skipped_heights |-> skipped, next_height |-> next + 1]
    ELSE [ret |-> NoneRet, finished |-> TRUE, skipped_heights |-> skipped, next_height |-> next]

\* --------------------------------------------- block prefetcher (4.E)
EmptyBlocks == [h \in {} |-> "None"]

Insert(m, h, v) == [k \in (DOMAIN m) \cup {h} |-> IF k = h THEN v ELSE m[k]]

\* a remove that leaves the slot in the map
RemoveKeeps(m, h) == m

Remove(m, h) == [k \in (DOMAIN m) \ {h} |-> m[k]]

\* self.sync_threads + 2
prefetch_size == sync_threads + PrefetchExtra

\* a start_sync that spawns sync_threads writers in every stage
jobsAllThreads == sync_threads

\* let jobs = if initial_sync { 1 } else { self.sync_threads };
jobs == IF initial_sync THEN 1 ELSE sync_threads

\* the pull made by prefetch() under the blocks and heights mutexes
Pull == HeightsNext(finished, skipped_heights, next_height, node_syncing_height, overflow_checks)

\* prefetch() aborts when the subtraction aborts or when the height is already
\* in the map (unreachable!)
PrefetchPanics == \/ Pull.ret.tag = "Panic"
                  \/ (Pull.ret.tag = "Some" /\ Pull.ret.h \in DOMAIN blocks)

\* unreachable!("Fetching block duplicating for height: {}", height)
Duplicating == "Fetching block duplicating"

\* unreachable!("No item for block on start sync: {}", height)
NoItem == "No item for block"

\* the model stops pulling frontier heights above HeightCap that are pulled
\* only because node_height - 3 wrapped around
PullInBounds ==
    Pull.ret.tag = "Some" =>
        \/ Pull.ret.h <= HeightCap
        \/ Pull.ret.h <= node_syncing_height - ConfirmationDepth

\* the claim's precondition of a restart: the generator has returned absent
\* and next_height <= node_height - 3 holds now
RestartDue == finished /\ next_height <= node_syncing_height - ConfirmationDepth

\* StartSyncBlocksGenerator::prefetch, the part run by the caller: pull a
\* height, insert the in-flight slot, spawn the fetch task
prefetch ==
    /\ finished' = Pull.finished
    /\ skipped_heights' = Pull.skipped_heights
    /\ next_height' = Pull.next_height
    /\ lastPull' = [tag |-> Pull.ret.tag, restart |-> RestartDue]
    /\ IF Pull.ret.tag = "Some"
       THEN /\ blocks' = Insert(blocks, Pull.ret.h, "None")
            /\ emitted' = Append(emitted, Pull.ret.h)
            /\ fetching' = fetching \cup {Pull.ret.h}
       ELSE UNCHANGED <<blocks, emitted, fetching>>
    /\ UNCHANGED hit

\* a prefetch() that aborts, the locks are released: in the subtraction
\* nothing has changed; on a height that is in the map already the generator
\* has moved on and the slot was overwritten, no task is spawned
prefetchAbort ==
    /\ lastPull' = [tag |-> "Panic", restart |-> RestartDue]
    /\ IF Pull.ret.tag = "Some"
       THEN /\ finished' = Pull.finished
            /\ skipped_heights' = Pull.skipped_heights
            /\ next_height' = Pull.next_height
            /\ blocks' = Insert(blocks, Pull.ret.h, "None")
            /\ emitted' = Append(emitted, Pull.ret.h)
            /\ hit' = hit \cup {Duplicating}
       ELSE UNCHANGED <<finished, skipped_heights, next_height, blocks, emitted, hit>>
    /\ UNCHANGED fetching

inputVars == <<db_bestblock, initial_sync, service_sync_from, sync_threads, overflow_checks, capacity>>

\* StartSyncBlocksGenerator::new: for _ in 0..prefetch_size { gen.prefetch().await }
ConstructPrefetch ==
    /\ sync_pc = "construct"
    /\ blocks_lock = -1
    /\ PullInBounds
    /\ IF PrefetchPanics
       THEN /\ prefetchAbort
            /\ sync_pc' = "panicked"
            /\ UNCHANGED prefetched
       ELSE /\ prefetch
            /\ prefetched' = prefetched + 1
            /\ sync_pc' = IF prefetched + 1 = prefetch_size THEN "running" ELSE "construct"
    /\ UNCHANGED <<inputVars, node_syncing_height, node_syncing_hash, node_info, blocks_lock, rx, pc, cur, returned, pushed>>

\* the fetch outcomes of get_block(height): a block, or an error (also for
\* Ok(None)); no block exists above the highest node height
FetchResults(h) == IF h <= MaxNodeHeight THEN {"Ok", "Err"} ELSE {"Err"}

\* a fetch task that locks the map before it calls get_block
FetchInsertLockFirst(h) ==
    /\ h \in DOMAIN blocks
    /\ blocks[h] = "None"
    /\ blocks_lock = -1
    /\ blocks_lock' = h
    /\ UNCHANGED <<inputVars, node_syncing_height, node_syncing_hash, node_info, finished, skipped_heights, next_height,
                   blocks, rx, sync_pc, prefetched, pc, cur, emitted, lastPull, fetching, hit, returned, pushed>>

\* spawned fetch task: get_block(height) has returned; blocks.lock(),
\* blocks.insert(height, Some(result)); without a slot to replace the task
\* aborts and its guard is released
FetchInsert(h) ==
    /\ h \in fetching
    /\ blocks_lock = -1
    /\ \E r \in FetchResults(h) : blocks' = Insert(blocks, h, r)
    /\ fetching' = fetching \ {h}
    /\ IF h \in DOMAIN blocks
       THEN blocks_lock' = h /\ UNCHANGED hit
       ELSE blocks_lock' = -1 /\ hit' = hit \cup {NoItem}
    /\ UNCHANGED <<inputVars, node_syncing_height, node_syncing_hash, node_info, finished, skipped_heights, next_height,
                   rx, sync_pc, prefetched, pc, cur, emitted, lastPull, returned, pushed>>

\* the receivers that exist: subscribed by next() and not yet dropped
Subscribed(c) == pc[c] \in {"scan", "recv"}

\* spawned fetch task: blocks_tx.lock().await.send(()), then both guards drop
FetchSend(h) ==
    /\ blocks_lock = h
    /\ rx' = [c \in Writers |-> IF Subscribed(c) THEN rx[c] + 1 ELSE rx[c]]
    /\ blocks_lock' = -1
    /\ UNCHANGED <<inputVars, node_syncing_height, node_syncing_hash, node_info, finished, skipped_heights, next_height,
                   blocks, sync_pc, prefetched, pc, cur, emitted, lastPull, fetching, hit, returned, pushed>>

\* next(): self.prefetch().await
NextPrefetch(c) ==
    /\ sync_pc = "running"
    /\ c <= jobs
    /\ pc[c] = "next"
    /\ blocks_lock = -1
    /\ PullInBounds
    /\ IF PrefetchPanics
       THEN /\ prefetchAbort
            /\ pc' = [pc EXCEPT ![c] = "panicked"]
       ELSE /\ prefetch
            /\ pc' = [pc EXCEPT ![c] = "subscribe"]
    /\ UNCHANGED <<inputVars, node_syncing_height, node_syncing_hash, node_info, blocks_lock, rx, sync_pc, prefetched,
                   cur, returned, pushed>>

\* next(): let mut rx = self.blocks_tx.lock().await.subscribe();
NextSubscribe(c) ==
    /\ pc[c] = "subscribe"
    /\ pc' = [pc EXCEPT ![c] = "scan"]
    /\ rx' = [rx EXCEPT ![c] = 0]
    /\ UNCHANGED <<inputVars, node_syncing_height, node_syncing_hash, node_info, finished, skipped_heights, next_height,
                   blocks, blocks_lock, sync_pc, prefetched, cur, emitted, lastPull, fetching, hit,
                   returned, pushed>>

\* a scan that takes the slots in flight for ready ones
ReadyHeightsAny(m) == DOMAIN m

\* heights whose slot holds a result
ReadyHeights(m) == {h \in DOMAIN m : m[h] # "None"}

\* next(): the height whose result is removed and returned
valid_height(m) == SetMin(ReadyHeights(m))

\* next(): one pass of the loop under the blocks mutex
NextScan(c) ==
    /\ pc[c] = "scan"
    /\ blocks_lock = -1
    /\ IF DOMAIN blocks = {}
       THEN \* return Ok(None)
            /\ pc' = [pc EXCEPT ![c] = "done"]
            /\ rx' = [rx EXCEPT ![c] = 0]
            /\ UNCHANGED <<blocks, cur, returned>>
       ELSE IF ReadyHeights(blocks) # {}
       THEN \* return blocks.remove(&height).unwrap().unwrap()
            /\ blocks' = Remove(blocks, valid_height(blocks))
            /\ rx' = [rx EXCEPT ![c] = 0]
            /\ IF blocks[valid_height(blocks)] = "Ok"
               THEN /\ pc' = [pc EXCEPT ![c] = "push"]
                    /\ cur' = [cur EXCEPT ![c] = valid_height(blocks)]
                    /\ returned' = Append(returned, valid_height(blocks))
               ELSE /\ pc' = [pc EXCEPT ![c] = "failed"]
                    /\ UNCHANGED <<cur, returned>>
       ELSE \* drop(blocks); rx.recv().await
            /\ pc' = [pc EXCEPT ![c] = "recv"]
            /\ UNCHANGED <<blocks, rx, cur, returned>>
    /\ UNCHANGED <<inputVars, node_syncing_height, node_syncing_hash, node_info, finished, skipped_heights, next_height,
                   blocks_lock, sync_pc, prefetched, emitted, lastPull, fetching, hit, pushed>>

\* next(): rx.recv().await.unwrap(), a receiver more than the capacity
\* behind gets Lagged and the unwrap aborts
NextRecv(c) ==
    /\ pc[c] = "recv"
    /\ rx[c] > 0
    /\ IF rx[c] > capacity
       THEN /\ pc' = [pc EXCEPT ![c] = "panicked"]
            /\ rx' = [rx EXCEPT ![c] = 0]
       ELSE /\ pc' = [pc EXCEPT ![c] = "scan"]
            /\ rx' = [rx EXCEPT ![c] = rx[c] - 1]
    /\ UNCHANGED <<inputVars, node_syncing_height, node_syncing_hash, node_info, finished, skipped_heights, next_height,
                   blocks, blocks_lock, sync_pc, prefetched, cur, emitted, lastPull, fetching, hit,
                   returned, pushed>>

\* writer task: db.push_block(&block).await?
PushBlock(c) ==
    /\ pc[c] = "push"
    /\ pushed' = Append(pushed, cur[c])
    /\ pc' = [pc EXCEPT ![c] = "next"]
    /\ cur' = [cur EXCEPT ![c] = -1]
    /\ UNCHANGED <<inputVars, node_syncing_height, node_syncing_hash, node_info, finished, skipped_heights, next_height,
                   blocks, blocks_lock, rx, sync_pc, prefetched, emitted, lastPull, fetching, hit, returned>>

\* block hashes; a Block is modelled by its hash field
Hashes == 1..MaxHashes

\* H256::default()
DefaultHash == 0

\* the hash of the block at height h of a chain that grows without a
\* reorganisation
BestHash(h) == 1 + (h % MaxHashes)

\* IndexerStatus::default() after update_node_status got info from the node
update_node_status(info) ==
    [node_syncing_height |-> info.blocks, node_syncing_hash |-> info.bestblockhash,
     service_sync_from |-> 0]

\* a merge that takes the height and leaves the hash
mergeHeightOnly(self, other) ==
    [self EXCEPT !.node_syncing_height = other.node_syncing_height]

\* IndexerStatus::merge: the height and the hash are taken from other,
\* service_sync_from is kept
merge(self, other) ==
    [self EXCEPT !.node_syncing_height = other.node_syncing_height,
                 !.node_syncing_hash = other.node_syncing_hash]

\* Indexer::update_status: the status held after it
update_status(self, status) == IF self # status THEN merge(self, status) ELSE self

\* *self.status.read()
Status ==
    [node_syncing_height |-> node_syncing_height, node_syncing_hash |-> node_syncing_hash,
     service_sync_from |-> service_sync_from]

\* update_node_status with the info the node answers, then update_status
Refresh(info) ==
    /\ node_info' = info
    /\ node_syncing_height' = update_status(Status, update_node_status(info)).node_syncing_height
    /\ node_syncing_hash' = update_status(Status, update_node_status(info)).node_syncing_hash

\* status loop: update_node_status then update_status (merge); the height the
\* node reports grows
UpdateStatus ==
    /\ \E h \in 0..MaxNodeHeight :
          /\ h > node_syncing_height
          /\ Refresh([blocks |-> h, bestblockhash |-> BestHash(h)])
    /\ UNCHANGED <<inputVars, finished, skipped_heights, next_height, blocks, blocks_lock,
                   rx, sync_pc, prefetched, pc, cur, emitted, lastPull, fetching, hit, returned, pushed>>

\* ------------------------------------------------ shutdown latch (4.A)
Tasks == 1..NumTasks

\* is_recv with the test of the flag inverted
IsRecvResultInverted(n) == IF n THEN "Ok" ELSE "Cancelled"

\* Shutdown::is_recv: Err(ShutdownSignal) if *notified, else Ok(())
IsRecvResult(n) == IF n THEN "Cancelled" ELSE "Ok"

\* Notify::notify: wakes the oldest suspended waiter, or stores one permit
NotifyWaiters(w) == IF w = <<>> THEN <<>> ELSE Tail(w)

NotifyPermit(w, p) == IF w = <<>> THEN TRUE ELSE p

NotifyWoken(w) == IF w = <<>> THEN {} ELSE {Head(w)}

\* Shutdown::set: the write lock, *notified = true, self.notify.notify()
Set ==
    /\ trips < MaxTrips
    /\ trips' = trips + 1
    /\ notified' = TRUE
    /\ waiters' = NotifyWaiters(waiters)
    /\ permit' = NotifyPermit(waiters, permit)
    /\ spc' = [t \in Tasks |-> IF t \in NotifyWoken(waiters) THEN "woken" ELSE spc[t]]
    /\ UNCHANGED <<check_res, cancels>>

\* a task calls Shutdown::is_recv
IsRecvCall(t) ==
    /\ spc[t] \in {"idle", "returned"}
    /\ check_res[t] = "none"
    /\ spc' = [spc EXCEPT ![t] = IF spc[t] = "idle" THEN "is_recv" ELSE "is_recv_after"]
    /\ UNCHANGED <<notified, permit, waiters, check_res, cancels, trips>>

\* Shutdown::is_recv reads the flag under the read lock and returns
IsRecv(t) ==
    /\ spc[t] \in {"is_recv", "is_recv_after"}
    /\ check_res' = [check_res EXCEPT ![t] = IsRecvResult(notified)]
    /\ spc' = [spc EXCEPT ![t] = IF spc[t] = "is_recv" THEN "idle" ELSE "returned"]
    /\ UNCHANGED <<notified, permit, waiters, cancels, trips>>

\* a task calls Shutdown::wait
WaitCall(t) ==
    /\ spc[t] = "idle"
    /\ spc' = [spc EXCEPT ![t] = "wait"]
    /\ UNCHANGED <<notified, permit, waiters, check_res, cancels, trips>>

\* Shutdown::wait: if !*self.notified.read().await { ... } ShutdownSignal {}
WaitRead(t) ==
    /\ spc[t] = "wait"
    /\ IF notified
       THEN /\ spc' = [spc EXCEPT ![t] = "returned"]
            /\ cancels' = [cancels EXCEPT ![t] = cancels[t] + 1]
       ELSE /\ spc' = [spc EXCEPT ![t] = "notified"]
            /\ UNCHANGED cancels
    /\ UNCHANGED <<notified, permit, waiters, check_res, trips>>

\* Notify::notified, first poll: takes the stored permit or joins the queue
WaitNotified(t) ==
    /\ spc[t] = "notified"
    /\ IF permit
       THEN /\ permit' = FALSE
            /\ spc' = [spc EXCEPT ![t] = "returned"]
            /\ cancels' = [cancels EXCEPT ![t] = cancels[t] + 1]
            /\ UNCHANGED waiters
       ELSE /\ waiters' = Append(waiters, t)
            /\ spc' = [spc EXCEPT ![t] = "suspended"]
            /\ UNCHANGED <<permit, cancels>>
    /\ UNCHANGED <<notified, check_res, trips>>

\* a waiter woken by notify is polled again and wait() returns
WaitResume(t) ==
    /\ spc[t] = "woken"
    /\ spc' = [spc EXCEPT ![t] = "returned"]
    /\ cancels' = [cancels EXCEPT ![t] = cancels[t] + 1]
    /\ UNCHANGED <<notified, permit, waiters, check_res, trips>>

\* ------------------------------------------- Shutdown::delay_for (4.A)
\* Drop of a Notified future: its entry leaves the queue
RemoveWaiter(w, t) == SelectSeq(w, LAMBDA x : x # t)

\* a task calls Shutdown::delay_for(d) with d > 0: select! creates the Delay
\* and the wait() future
DelayCall(t) ==
    /\ spc[t] = "idle"
    /\ delay_res[t] = "none"
    /\ delay_timer[t] = "off"
    /\ spc' = [spc EXCEPT ![t] = "wait"]
    /\ delay_timer' = [delay_timer EXCEPT ![t] = "running"]
    /\ UNCHANGED <<notified, permit, waiters, check_res, cancels, trips,
                   delay_res, tripped_in_time>>

\* the duration d elapses
TimerElapse(t) ==
    /\ delay_timer[t] = "running"
    /\ delay_timer' = [delay_timer EXCEPT ![t] = "elapsed"]
    /\ tripped_in_time' = [tripped_in_time EXCEPT ![t] = notified]
    /\ UNCHANGED <<shutdownVars, delay_res>>

\* select!: e = self.wait() => Err(e.into())
DelayCancelled(t) ==
    /\ delay_timer[t] # "off"
    /\ spc[t] = "returned"
    /\ delay_res' = [delay_res EXCEPT ![t] = "Cancelled"]
    /\ delay_timer' = [delay_timer EXCEPT ![t] = "off"]
    /\ UNCHANGED <<shutdownVars, tripped_in_time>>

\* select!: _ = delay_for(duration) => Ok(()); the wait() future is dropped:
\* a suspended waiter leaves the queue, a woken one passes its notification
\* on. With both branches ready select! takes either.
DelayElapsed(t) ==
    /\ delay_timer[t] = "elapsed"
    /\ spc[t] \in {"suspended", "woken"}
    /\ delay_res' = [delay_res EXCEPT ![t] = "Ok"]
    /\ delay_timer' = [delay_timer EXCEPT ![t] = "off"]
    /\ IF spc[t] = "suspended"
       THEN /\ waiters' = RemoveWaiter(waiters, t)
            /\ spc' = [spc EXCEPT ![t] = "delayed"]
            /\ UNCHANGED permit
       ELSE /\ waiters' = NotifyWaiters(waiters)
            /\ permit' = NotifyPermit(waiters, permit)
            /\ spc' = [u \in Tasks |-> IF u = t THEN "delayed"
                                        ELSE IF u \in NotifyWoken(waiters) THEN "woken"
                                        ELSE spc[u]]
    /\ UNCHANGED <<notified, check_res, cancels, trips, tripped_in_time>>

\* ------------------------------------ signal listener (signals.rs, 4.A)
\* ShutdownSignals::new: the signal kinds, in the order of their streams
sig_map == <<"SIGINT", "SIGTERM", "SIGHUP", "SIGQUIT">>

\* the kinds the operating system delivers in the model
DeliveredKinds == {sig_map[i] : i \in 1..MaxSignalKinds}

\* streams whose poll_recv returns Ready(None): tokio never closes a signal
\* stream while the process runs
ClosedStreams == {}

\* ShutdownSignals::new when the registrations of the kinds outside S fail
RegisteredStreams(S) == SelectSeq(sig_map, LAMBDA k : k \in S)

RECURSIVE poll_scan(_, _, _, _, _)
\* ShutdownSignals::poll_next, the loop from index idx on
poll_scan(strs, ready, closed, idx, fin) ==
    IF idx > Len(strs) THEN [tag |-> "Pending", sig |-> "none"]
    ELSE IF strs[idx] \in ready THEN [tag |-> "Some", sig |-> strs[idx]]
    ELSE IF strs[idx] \in closed
    THEN IF fin + 1 = Len(strs) THEN [tag |-> "None", sig |-> "none"]
         ELSE poll_scan(strs, ready, closed, idx + 1, fin + 1)
    ELSE poll_scan(strs, ready, closed, idx + 1, fin)

\* ShutdownSignals::poll_next
poll_next(strs, ready, closed) == poll_scan(strs, ready, closed, 1, 0)

\* a listener that leaves for process::exit after its first item
ListenerNextExitsEarly(pos, tag) == "exit"

\* the listener task of subscribe(): where it goes from an s.next().await
\* that returned an item (tag Some) or the end of the stream (tag None)
ListenerNext(pos, tag) ==
    IF pos = "first" /\ tag = "Some" THEN "set" ELSE "exit"

\* the process has not exited
Running == exit_code = -1

\* the operating system delivers a signal of a registered kind; signals of
\* one kind coalesce in its stream
Deliver(k) ==
    /\ Running
    /\ delivered < MaxSignals
    /\ k \in Range(streams)
    /\ sig_ready' = sig_ready \cup {k}
    /\ delivered' = delivered + 1
    /\ UNCHANGED <<streams, sig_pc, received, processVars>>

\* listener: s.next().await returns
ListenerRecv ==
    /\ Running
    /\ sig_pc \in {"first", "second"}
    /\ poll_next(streams, sig_ready, ClosedStreams).tag # "Pending"
    /\ sig_pc' = ListenerNext(sig_pc, poll_next(streams, sig_ready, ClosedStreams).tag)
    /\ IF poll_next(streams, sig_ready, ClosedStreams).tag = "Some"
       THEN /\ received' = received + 1
            /\ sig_ready' = sig_ready \ {poll_next(streams, sig_ready, ClosedStreams).sig}
       ELSE UNCHANGED <<received, sig_ready>>
    /\ UNCHANGED <<streams, delivered, processVars>>

\* listener: notifier.set().await
ListenerSet ==
    /\ Running
    /\ sig_pc = "set"
    /\ Set
    /\ sig_pc' = "second"
    /\ UNCHANGED <<streams, sig_ready, received, delivered, processVars>>

\* listener: std::process::exit(1)
ListenerExit ==
    /\ Running
    /\ sig_pc = "exit"
    /\ sig_pc' = "exited"
    /\ exit_code' = 1
    /\ exit_by' = "listener"
    /\ UNCHANGED <<streams, sig_ready, received, delivered>>

\* ----------------------------------- Bitcoind::validate (bitcoind/mod.rs, 4.B)
\* RPC error code of a node that is still warming up
WarmingUpCode == -28

\* the task whose wait() calls are those of validate_client_initialized
Validator == 1

\* the task whose wait() call is that of DataBase::validate
DbValidator == 2

\* the checks joined by try_join! in validate, in their order
CheckOrder == <<"chain", "version", "same_node">>

Checks == Range(CheckOrder)

\* no request, a request in flight
NoResponse == [tag |-> "none", code |-> 0]

InFlight == [tag |-> "inflight", code |-> 0]

OkResponse == [tag |-> "Ok", code |-> 0]

\* error codes the node answers with
RpcCodes == {WarmingUpCode, -1, 28}

\* BitcoindError values of a failed request
RequestErrors == {[tag |-> "ResultRPC", code |-> c] : c \in RpcCodes}
                     \cup {[tag |-> "Reqwest", code |-> 0]}

\* BlockchainInfo values the node reports
Infos == [chain : {"main", "test"}, blocks : 1..MaxInfoBlocks, bestblockhash : {"ha", "hb"}]

\* answers to a blockchain_info request
InfoResponses == {[tag |-> "Ok", code |-> 0, info |-> i] : i \in Infos}

\* a comparison of BlockchainInfo that leaves the best hash out
InfoEqIgnoresHash(a, b) == a.chain = b.chain /\ a.blocks = b.blocks

\* #[derive(PartialEq)] of BlockchainInfo
InfoEq(a, b) ==
    /\ a.chain = b.chain
    /\ a.blocks = b.blocks
    /\ a.bestblockhash = b.bestblockhash

\* an initialization wait that retries on every RPC error
InitOutcomeRetriesAll(r) ==
    IF r.tag = "Ok" THEN "return_ok"
    ELSE IF r.tag = "ResultRPC" THEN "retry"
    ELSE "return_err"

\* validate_client_initialized: the match on the answer of blockchain_info
InitOutcome(r) ==
    IF r.tag = "Ok" THEN "return_ok"
    ELSE IF r.tag = "ResultRPC"
    THEN IF r.code # WarmingUpCode THEN "return_err" ELSE "retry"
    ELSE "return_err"

\* a validate that starts its checks whatever the initialization wait returned
ChecksMayStartAlways(init) == init # "running"

\* validate: self.validate_client_initialized(shutdown).await? before try_join!
ChecksMayStart(init) == init = "Ok"

\* validate_client_initialized, top of the loop: select! creates the
\* blockchain_info request and the wait() future
InitSelect ==
    /\ v_pc = "init_select"
    /\ spc[Validator] = "idle"
    /\ v_pc' = "init_wait"
    /\ v_rpc' = InFlight
    /\ spc' = [spc EXCEPT ![Validator] = "wait"]
    /\ UNCHANGED <<notified, permit, waiters, check_res, cancels, trips>>
    /\ UNCHANGED <<has_rest, chain_arg, v_retries, v_init, chk, sn_rpc, sn_rest, check_reqs, v_res>>

\* the node answers the blockchain_info request of the initialization wait
InitRespond ==
    /\ v_pc = "init_wait"
    /\ v_rpc = InFlight
    /\ \E r \in {OkResponse} \cup RequestErrors :
          /\ (InitOutcome(r) = "retry" => v_retries < MaxRetries)
          /\ v_rpc' = r
    /\ UNCHANGED shutdownVars
    /\ UNCHANGED <<has_rest, chain_arg, v_pc, v_retries, v_init, chk, sn_rpc, sn_rest,
                   check_reqs, v_res>>

\* select!: info = self.rpc.get_blockchain_info() => match info; the wait()
\* future is dropped. With both branches ready select! takes either.
InitRpcBranch ==
    /\ v_pc = "init_wait"
    /\ v_rpc \notin {NoResponse, InFlight}
    /\ spc[Validator] \in {"suspended", "woken"}
    /\ IF spc[Validator] = "suspended"
       THEN /\ waiters' = RemoveWaiter(waiters, Validator)
            /\ spc' = [spc EXCEPT ![Validator] = "idle"]
            /\ UNCHANGED permit
       ELSE /\ waiters' = NotifyWaiters(waiters)
            /\ permit' = NotifyPermit(waiters, permit)
            /\ spc' = [u \in Tasks |-> IF u = Validator THEN "idle"
                                        ELSE IF u \in NotifyWoken(waiters) THEN "woken"
                                        ELSE spc[u]]
    /\ v_rpc' = NoResponse
    /\ IF InitOutcome(v_rpc) = "return_ok"
       THEN /\ v_init' = "Ok"
            /\ v_pc' = "after_init"
            /\ UNCHANGED <<v_retries, v_res>>
       ELSE IF InitOutcome(v_rpc) = "retry"
       THEN /\ v_retries' = v_retries + 1
            /\ v_pc' = "init_sleep"
            /\ UNCHANGED <<v_init, v_res>>
       ELSE /\ v_init' = "Err"
            /\ v_res' = v_rpc
            /\ v_pc' = "after_init"
            /\ UNCHANGED v_retries
    /\ UNCHANGED <<notified, check_res, cancels, trips>>
    /\ UNCHANGED <<has_rest, chain_arg, chk, sn_rpc, sn_rest, check_reqs>>

\* tokio::time::delay_for(sleep_duration).await inside the -28 arm
InitSleep ==
    /\ v_pc = "init_sleep"
    /\ v_pc' = "init_select"
    /\ UNCHANGED shutdownVars
    /\ UNCHANGED <<has_rest, chain_arg, v_rpc, v_retries, v_init, chk, sn_rpc, sn_rest,
                   check_reqs, v_res>>

\* select!: e = shutdown.wait() => return Err(BitcoindError::Shutdown(e)); the
\* request is dropped
InitWaitBranch ==
    /\ v_pc = "init_wait"
    /\ spc[Validator] = "returned"
    /\ v_init' = "Cancelled"
    /\ v_res' = [tag |-> "Shutdown", code |-> 0]
    /\ v_rpc' = NoResponse
    /\ v_pc' = "after_init"
    /\ UNCHANGED shutdownVars
    /\ UNCHANGED <<has_rest, chain_arg, v_retries, chk, sn_rpc, sn_rest, check_reqs>>

\* validate: the ? after validate_client_initialized returns its error
ValidateInitFailed ==
    /\ v_pc = "after_init"
    /\ ~ChecksMayStart(v_init)
    /\ v_pc' = "done"
    /\ UNCHANGED shutdownVars
    /\ UNCHANGED <<has_rest, chain_arg, v_rpc, v_retries, v_init, chk, sn_rpc, sn_rest,
                   check_reqs, v_res>>

\* validate: first poll of try_join!, every check issues its requests;
\* validate_clients_to_same_node has none without a REST client
ChecksStart ==
    /\ v_pc = "after_init"
    /\ ChecksMayStart(v_init)
    /\ v_pc' = "checks"
    /\ chk' = [c \in Checks |-> IF c = "same_node" /\ ~has_rest THEN OkResponse ELSE InFlight]
    /\ sn_rpc' = IF has_rest THEN InFlight ELSE NoResponse
    /\ sn_rest' = IF has_rest THEN InFlight ELSE NoResponse
    /\ check_reqs' = {c \in Checks : c # "same_node" \/ has_rest}
    /\ UNCHANGED shutdownVars
    /\ UNCHANGED <<has_rest, chain_arg, v_rpc, v_retries, v_init, v_res>>

\* validate_chain on the answer r of blockchain_info
validate_chain(r, chain) ==
    IF r.tag # "Ok" THEN r
    ELSE IF r.info.chain # chain THEN [tag |-> "ClientInvalidX", code |-> 0]
    ELSE OkResponse

\* the node answers the request of validate_chain
ChainRespond ==
    /\ v_pc = "checks"
    /\ chk["chain"] = InFlight
    /\ \E r \in InfoResponses \cup RequestErrors :
          chk' = [chk EXCEPT !["chain"] = validate_chain(r, chain_arg)]
    /\ UNCHANGED shutdownVars
    /\ UNCHANGED <<has_rest, chain_arg, v_pc, v_rpc, v_retries, v_init, sn_rpc, sn_rest,
                   check_reqs, v_res>>

\* results of validate_version: passed, a subversion that does not parse, a
\* wrong user agent or version, a failed request
VersionResults == {OkResponse, [tag |-> "ClientInvalidVersionX", code |-> 0],
                   [tag |-> "ClientInvalidX", code |-> 0]} \cup RequestErrors

\* the node answers get_network_info and validate_version returns
VersionRespond ==
    /\ v_pc = "checks"
    /\ chk["version"] = InFlight
    /\ \E r \in VersionResults : chk' = [chk EXCEPT !["version"] = r]
    /\ UNCHANGED shutdownVars
    /\ UNCHANGED <<has_rest, chain_arg, v_pc, v_rpc, v_retries, v_init, sn_rpc, sn_rest,
                   check_reqs, v_res>>

\* validate_clients_to_same_node with a REST client: try_join! of the two
\* requests, then rpc != rest
same_node_result(rpc, rest) ==
    IF rpc.tag \notin {"Ok", "inflight"} THEN rpc
    ELSE IF rest.tag \notin {"Ok", "inflight"} THEN rest
    ELSE IF rpc.tag = "inflight" \/ rest.tag = "inflight" THEN InFlight
    ELSE IF ~InfoEq(rpc.info, rest.info) THEN [tag |-> "ClientMismatch", code |-> 0]
    ELSE OkResponse

\* errors of a REST request
RestErrors == {[tag |-> "ResultRest", code |-> 0], [tag |-> "Reqwest", code |-> 0]}

\* the node answers the RPC request of validate_clients_to_same_node
SameNodeRpcRespond ==
    /\ v_pc = "checks"
    /\ chk["same_node"] = InFlight
    /\ sn_rpc = InFlight
    /\ \E r \in InfoResponses \cup RequestErrors :
          /\ sn_rpc' = r
          /\ chk' = [chk EXCEPT !["same_node"] = same_node_result(r, sn_rest)]
    /\ UNCHANGED shutdownVars
    /\ UNCHANGED <<has_rest, chain_arg, v_pc, v_rpc, v_retries, v_init, sn_rest,
                   check_reqs, v_res>>

\* the node answers the REST request of validate_clients_to_same_node
SameNodeRestRespond ==
    /\ v_pc = "checks"
    /\ chk["same_node"] = InFlight
    /\ sn_rest = InFlight
    /\ \E r \in InfoResponses \cup RestErrors :
          /\ sn_rest' = r
          /\ chk' = [chk EXCEPT !["same_node"] = same_node_result(sn_rpc, r)]
    /\ UNCHANGED shutdownVars
    /\ UNCHANGED <<has_rest, chain_arg, v_pc, v_rpc, v_retries, v_init, sn_rpc,
                   check_reqs, v_res>>

\* the checks of try_join! that have failed
FailedChecks == {i \in 1..Len(CheckOrder) : chk[CheckOrder[i]].tag \notin {"Ok", "inflight", "none"}}

\* validate: try_join! returns the error of the first failed check it polls,
\* or Ok(()) once every check has passed
ValidateReturn ==
    /\ v_pc = "checks"
    /\ \/ FailedChecks # {}
       \/ \A c \in Checks : chk[c] = OkResponse
    /\ v_res' = IF FailedChecks # {} THEN chk[CheckOrder[SetMin(FailedChecks)]] ELSE OkResponse
    /\ v_pc' = "done"
    /\ UNCHANGED shutdownVars
    /\ UNCHANGED <<has_rest, chain_arg, v_rpc, v_retries, v_init, chk, sn_rpc, sn_rest,
                   check_reqs>>

\* ------------------------------------ Indexer::start and main (4.D, 4.E)
\* the task whose latch calls are those of start_status_update_loop
StatusTask == 1

\* Ok(())
NoError == "none"

\* errors of DataBase::validate: a database error, the cancellation
DbValidateErrors == {"DataBaseError", "ShutdownSignal"}

\* errors of Bitcoind::validate: failed checks or requests, the cancellation
NodeValidateErrors == {"BitcoindError::ClientMismatch", "BitcoindError::ResultRPC",
                       "BitcoindError::Shutdown"}

\* errors that carry the cancellation of Shutdown::wait
Cancellations == {"ShutdownSignal", "BitcoindError::Shutdown"}

\* a Debug output that names the variant of a wrapping error and not the
\* error inside it
DebugFormatShallow(e) ==
    IF e = "ShutdownSignal" THEN <<"ShutdownSignal">>
    ELSE IF e = "BitcoindError::Shutdown" THEN <<"Shutdown">>
    ELSE IF e = "BitcoindError::ClientMismatch" THEN <<"ClientMismatch">>
    ELSE IF e = "BitcoindError::ResultRPC" THEN <<"ResultRPC", "ResponseError">>
    ELSE <<"DataBaseError">>

\* format!("{:?}", error): the identifiers of the derived Debug output
DebugFormat(e) ==
    IF e = "ShutdownSignal" THEN <<"ShutdownSignal">>
    ELSE IF e = "BitcoindError::Shutdown" THEN <<"Shutdown", "ShutdownSignal">>
    ELSE IF e = "BitcoindError::ClientMismatch" THEN <<"ClientMismatch">>
    ELSE IF e = "BitcoindError::ResultRPC" THEN <<"ResultRPC", "ResponseError">>
    ELSE <<"DataBaseError">>

\* a main that exits with 1 on every error
ExitCodeUnfiltered(res) == IF res = NoError THEN 0 ELSE 1

\* main: the exit code for the result of runtime.block_on(main_fut)
ExitCode(res) ==
    IF res = NoError THEN 0
    ELSE IF "ShutdownSignal" \in Range(DebugFormat(res)) THEN 0
    ELSE 1

\* a start that goes on whatever connect returned
StartProceedsAlways(res) == TRUE

\* start: self.connect().await?
StartProceeds(res) == res = NoError

\* IndexerStatus.node_syncing_height = h, the pipeline untouched
SetNodeHeight(h) ==
    /\ \E hash \in Hashes : Refresh([blocks |-> h, bestblockhash |-> hash])
    /\ UNCHANGED <<inputVars, finished, skipped_heights, next_height, blocks, blocks_lock,
                   rx, sync_pc, prefetched, pc, cur, emitted, lastPull, fetching, hit, returned, pushed>>

\* connect: self.db.validate(&self.shutdown) completes; it returns the
\* cancellation only once the latch is tripped
ConnectDb ==
    /\ Running
    /\ start_pc = "connect"
    /\ db_valid = "pending"
    /\ \E r \in {"Ok"} \cup DbValidateErrors :
          /\ (r \in Cancellations => notified)
          /\ db_valid' = r
    /\ UNCHANGED <<start_pc, node_valid, connect_res, seeded, st_pc, st_res, start_res>>

\* connect: self.bitcoind.validate(&self.shutdown) completes
ConnectNode ==
    /\ Running
    /\ start_pc = "connect"
    /\ node_valid = "pending"
    /\ \E r \in {"Ok"} \cup NodeValidateErrors :
          /\ (r \in Cancellations => notified)
          /\ node_valid' = r
    /\ UNCHANGED <<start_pc, db_valid, connect_res, seeded, st_pc, st_res, start_res>>

\* connect: try_join! returns the first error it polls, or Ok(()) once both
\* validations have succeeded
ConnectReturn ==
    /\ Running
    /\ start_pc = "connect"
    /\ \/ db_valid \notin {"pending", "Ok"}
       \/ node_valid \notin {"pending", "Ok"}
       \/ (db_valid = "Ok" /\ node_valid = "Ok")
    /\ connect_res' = IF db_valid \notin {"pending", "Ok"} THEN db_valid
                      ELSE IF node_valid \notin {"pending", "Ok"} THEN node_valid
                      ELSE NoError
    /\ start_pc' = "after_connect"
    /\ UNCHANGED <<db_valid, node_valid, seeded, st_pc, st_res, start_res>>

\* start: the ? on connect
AfterConnect ==
    /\ Running
    /\ start_pc = "after_connect"
    /\ IF StartProceeds(connect_res)
       THEN /\ start_pc' = "seed"
            /\ UNCHANGED start_res
       ELSE /\ start_pc' = "returned"
            /\ start_res' = connect_res
    /\ UNCHANGED <<db_valid, node_valid, connect_res, seeded, st_pc, st_res>>

\* start: status.update_node_status(&self.bitcoind).await?, update_status
Seed ==
    /\ Running
    /\ start_pc = "seed"
    /\ \/ /\ \E h \in ConfirmationDepth..MaxStartNodeHeight : SetNodeHeight(h)
          /\ seeded' = TRUE
          /\ start_pc' = "loops"
          /\ UNCHANGED start_res
       \/ /\ start_res' = "BitcoindError::ResultRPC"
          /\ start_pc' = "returned"
          /\ UNCHANGED <<syncVars, seeded>>
    /\ UNCHANGED <<db_valid, node_valid, connect_res, st_pc, st_res>>

\* the futures joined by try_join! in start are polled
LoopsRunning == Running /\ start_pc = "loops"

\* the tasks spawned by start_sync and by prefetch run until the process exits
SpawnedRunning == Running /\ start_pc \in {"loops", "returned"}

\* start_status_update_loop: self.shutdown.is_recv().await?
StatusCheck ==
    /\ LoopsRunning
    /\ st_pc = "check"
    /\ IF IsRecvResult(notified) = "Cancelled"
       THEN /\ st_pc' = "exited"
            /\ st_res' = "ShutdownSignal"
       ELSE /\ st_pc' = "update"
            /\ UNCHANGED st_res
    /\ UNCHANGED <<start_pc, db_valid, node_valid, connect_res, seeded, start_res>>

\* start_status_update_loop: update_node_status(..).await?, update_status
StatusUpdate ==
    /\ LoopsRunning
    /\ st_pc = "update"
    /\ \/ /\ \E h \in node_syncing_height..MaxStartNodeHeight : SetNodeHeight(h)
          /\ st_pc' = "delay"
          /\ UNCHANGED st_res
       \/ /\ st_res' = "BitcoindError::ResultRPC"
          /\ st_pc' = "exited"
          /\ UNCHANGED syncVars
    /\ UNCHANGED <<start_pc, db_valid, node_valid, connect_res, seeded, start_res>>

\* start_status_update_loop: 100 ms have passed already, no sleep
StatusNoDelay ==
    /\ LoopsRunning
    /\ st_pc = "delay"
    /\ st_pc' = "check"
    /\ UNCHANGED <<start_pc, db_valid, node_valid, connect_res, seeded, st_res, start_res>>

\* start_status_update_loop: self.shutdown.delay_for(sleep_duration)
StatusDelayCall ==
    /\ LoopsRunning
    /\ st_pc = "delay"
    /\ DelayCall(StatusTask)
    /\ st_pc' = "delaying"
    /\ UNCHANGED <<start_pc, db_valid, node_valid, connect_res, seeded, st_res, start_res>>

\* start_status_update_loop: the ? on delay_for
StatusAfterDelay ==
    /\ LoopsRunning
    /\ st_pc = "delaying"
    /\ delay_res[StatusTask] # "none"
    /\ IF delay_res[StatusTask] = "Ok"
       THEN /\ st_pc' = "check"
            /\ UNCHANGED st_res
       ELSE /\ st_pc' = "exited"
            /\ st_res' = "ShutdownSignal"
    /\ delay_res' = [delay_res EXCEPT ![StatusTask] = "none"]
    /\ tripped_in_time' = [tripped_in_time EXCEPT ![StatusTask] = FALSE]
    /\ spc' = [spc EXCEPT ![StatusTask] = "idle"]
    /\ UNCHANGED <<notified, permit, waiters, check_res, cancels, trips, delay_timer>>
    /\ UNCHANGED <<start_pc, db_valid, node_valid, connect_res, seeded, start_res>>

\* start_sync: a writer task has finished with an error
SyncFailed == sync_pc = "running" /\ \E c \in 1..jobs : pc[c] = "failed"

\* start: try_join! returns the error of the status loop or of start_sync,
\* whichever it polls first; the other future is dropped
StartReturn ==
    /\ LoopsRunning
    /\ st_pc = "exited" \/ SyncFailed
    /\ start_res' = IF st_pc = "exited" THEN st_res ELSE "BitcoindError::ResultRPC"
    /\ start_pc' = "returned"
    /\ waiters' = RemoveWaiter(waiters, StatusTask)
    /\ UNCHANGED <<notified, permit, spc, check_res, cancels, trips>>
    /\ UNCHANGED <<db_valid, node_valid, connect_res, seeded, st_pc, st_res>>

\* main: std::process::exit with the code for the result of start
MainExit ==
    /\ Running
    /\ start_pc = "returned"
    /\ exit_code' = ExitCode(start_res)
    /\ exit_by' = "main"

\* ------------------------------------------- node client requests (4.B)
\* Option<T>
OptNone == [some |-> FALSE, v |-> 0]

OptSome(x) == [some |-> TRUE, v |-> x]

\* codes of ResponseError: block not found, height out of range, another
ResponseErrorCodes == {-5, -8, -1}

\* what RPCClient::request gets for a request: a parsed Response{id, error,
\* result}, or a transport or a parse failure
RpcResponses ==
    [tag : {"Response"}, id : 0..MaxRequests,
     error : {OptNone} \cup {OptSome(c) : c \in ResponseErrorCodes},
     result : {OptNone} \cup {OptSome(h) : h \in Hashes}]
    \cup {[tag |-> t, id |-> 0, error |-> OptNone, result |-> OptNone] :
             t \in {"Reqwest", "ResponseParse"}}

\* BitcoindResult values
Ok(value) == [tag |-> "Ok", error |-> "", code |-> 0, value |-> value]

Err(error, code) == [tag |-> "Err", error |-> error, code |-> code, value |-> OptNone]

NoResult == [tag |-> "none", error |-> "", code |-> 0, value |-> OptNone]

NoData == [tag |-> "none", id |-> 0, error |-> OptNone, result |-> OptNone]

\* a call that looks at the error field before the id
callErrorFirst(id, data) ==
    IF data.tag # "Response" THEN Err(data.tag, 0)
    ELSE IF data.error.some THEN Err("ResultRPC", data.error.v)
    ELSE IF data.id # id THEN Err("NonceMismatch", 0)
    ELSE IF ~data.result.some THEN Err("ResultNotFound", 0)
    ELSE Ok(data.result)

\* RPCClient::call: the result for the request id and the outcome of request
call(id, data) ==
    IF data.tag # "Response" THEN Err(data.tag, 0)
    ELSE IF data.id # id THEN Err("NonceMismatch", 0)
    ELSE IF data.error.some THEN Err("ResultRPC", data.error.v)
    ELSE IF ~data.result.some THEN Err("ResultNotFound", 0)
    ELSE Ok(data.result)

\* a get_block_by_hash that returns the block the node sent, whatever its hash
rpc_get_block_by_hash_unchecked(hash, r) ==
    IF r.tag = "Ok" THEN r
    ELSE IF r.error = "ResultRPC" /\ r.code = -5 THEN Ok(OptNone)
    ELSE r

\* RPCClient::get_block_by_hash: the match on the result r of call("getblock")
rpc_get_block_by_hash(hash, r) ==
    IF r.tag = "Ok"
    THEN IF r.value.v = hash THEN r ELSE Err("ResultMismatch", 0)
    ELSE IF r.error = "ResultRPC" /\ r.code = -5 THEN Ok(OptNone)
    ELSE r

\* a REST body: a block, bytes that do not parse, or a body that cannot be read
RestBodies ==
    {[kind |-> "block", hash |-> h] : h \in Hashes}
    \cup {[kind |-> k, hash |-> 0] : k \in {"invalid", "unreadable"}}

\* what the REST request gets: a response with a status, or a send failure
RestResponses ==
    [tag : {"Response"}, status : {200, 404, 500}, body : RestBodies]
    \cup {[tag |-> "Reqwest", status |-> 0, body |-> [kind |-> "unreadable", hash |-> 0]]}

NoRestData == [tag |-> "none", status |-> 0, body |-> [kind |-> "unreadable", hash |-> 0]]

\* RESTClient::get_block_by_hash
rest_get_block_by_hash(hash, res) ==
    IF res.tag # "Response" THEN Err("Reqwest", 0)
    ELSE IF res.status = 404 THEN Ok(OptNone)
    ELSE IF res.body.kind = "unreadable" THEN Err("Reqwest", 0)
    ELSE IF res.status # 200 THEN Err("ResultRest", res.status)
    ELSE IF res.body.kind = "invalid" THEN Err("ResponseParse", 0)
    ELSE IF res.body.hash # hash THEN Err("ResultMismatch", 0)
    ELSE Ok(OptSome(res.body.hash))

\* get_block_by_height, once the hash is known: the request goes to the REST
\* client when there is one; RPCClient::call takes the next request id
BlockByHashCall(hash) ==
    /\ rpc_pc = "idle"
    /\ bh_hash' = hash
    /\ IF has_rest
       THEN /\ rpc_pc' = "rest"
            /\ UNCHANGED req_id
       ELSE /\ req_id < MaxRequests
            /\ req_id' = req_id + 1
            /\ rpc_pc' = "rpc"
    /\ UNCHANGED <<rpc_data, rest_data, call_ret, bh_ret>>

\* the node answers the getblock call
RpcRespond(data) ==
    /\ rpc_pc = "rpc"
    /\ rpc_data' = data
    /\ call_ret' = call(req_id, data)
    /\ bh_ret' = rpc_get_block_by_hash(bh_hash, call(req_id, data))
    /\ rpc_pc' = "idle"
    /\ UNCHANGED <<req_id, bh_hash, rest_data>>

\* the node answers the REST request
RestRespond(res) ==
    /\ rpc_pc = "rest"
    /\ rest_data' = res
    /\ bh_ret' = rest_get_block_by_hash(bh_hash, res)
    /\ rpc_pc' = "idle"
    /\ UNCHANGED <<req_id, bh_hash, rpc_data, call_ret>>

\* ------------------------------------- database lifecycle (4.C)
\* versions the PostgreSQL server reports, as their dot-separated numbers
PgVersions == {<<11, 5>>, <<12, 3>>, <<12, 3, 1>>}

\* if version.matches('.').count() == 1 { version += ".0" }
NormalizeVersion(v) == IF Len(v) = 2 THEN Append(v, 0) ELSE v

\* VersionReq::parse("12.*").matches(&version)
VersionMatches(v) == v[1] = 12

\* DataBase.coin, chain, version and the extra data built by validate_schema
BaseConfig == [coin |-> "bitcoin", chain |-> "main", version |-> 1, extra |-> FALSE]

Configs == {BaseConfig,
            [BaseConfig EXCEPT !.coin = "litecoin"],
            [BaseConfig EXCEPT !.chain = "test"],
            [BaseConfig EXCEPT !.version = 2],
            [BaseConfig EXCEPT !.extra = TRUE]}

\* stage values a schema_info row holds
Stages == {"#created", "#synced"}

\* the row of schema_info for a configuration and a stage
SchemaInfoRow(c, s) ==
    [coin |-> c.coin, chain |-> c.chain, version |-> c.version, extra |-> c.extra,
     stage |-> s]

\* a database without the schema
NoSchema == [schema |-> FALSE, info |-> FALSE, rows |-> <<>>]

\* a database after an earlier bootstrap
Bootstrapped(c, s) == [schema |-> TRUE, info |-> TRUE, rows |-> <<SchemaInfoRow(c, s)>>]

\* the queries of the base group
schemaExists(d) == d.schema

schemaCreate(d) == [d EXCEPT !.schema = TRUE]

schemaInfoExists(d) == d.info

schemaInfoCreate(d) == [d EXCEPT !.info = TRUE]

schemaInfoInsert(d, c, s) == [d EXCEPT !.rows = Append(@, SchemaInfoRow(c, s))]

schemaInfoSelect(d) == d.rows[1]

\* asserts that compare the coin only
SchemaMismatchCoinOnly(row, c) == IF row.coin # c.coin THEN "coin" ELSE "none"

\* the assert! macro, in the order coin, chain, version, extra: the name of
\* the first item that differs
SchemaMismatch(row, c) ==
    IF row.coin # c.coin THEN "coin"
    ELSE IF row.chain # c.chain THEN "chain"
    ELSE IF row.version # c.version THEN "version"
    ELSE IF row.extra # c.extra THEN "extra"
    ELSE "none"

\* a transaction whose statements stay in the database when it is dropped
RollbackKeepsWork(committed, working) == working

\* a Transaction dropped without commit: the database is as before it
Rollback(committed, working) == committed

\* positions of validate between two awaits on the database
DbSteps == {"version", "begin", "schema_exists", "info_exists", "info_create",
            "info_insert", "create", "info_select", "commit"}

\* select! polls the validation and an await on the database returns: the
\* wait() branch was polled before and is suspended
DbPolled == d_pc \in DbSteps /\ spc[DbValidator] = "suspended"

\* the same for an await whose return ends validate: select! may poll the
\* validation first in the poll that would resume a woken wait()
DbPolledLast == d_pc \in DbSteps /\ spc[DbValidator] \in {"suspended", "woken"}

\* select! returns and drops the wait() future: a suspended waiter leaves the
\* queue, a woken one passes its notification on
DropWait(t) ==
    /\ IF spc[t] = "woken"
       THEN /\ waiters' = NotifyWaiters(waiters)
            /\ permit' = NotifyPermit(waiters, permit)
            /\ spc' = [u \in Tasks |-> IF u = t THEN "dropped"
                                        ELSE IF u \in NotifyWoken(waiters) THEN "woken"
                                        ELSE spc[u]]
       ELSE /\ waiters' = RemoveWaiter(waiters, t)
            /\ spc' = [spc EXCEPT ![t] = "dropped"]
            /\ UNCHANGED permit
    /\ UNCHANGED <<notified, check_res, cancels, trips>>

\* validate returns res from the validation branch without a commit
DbAbort(res) ==
    /\ d_res' = res
    /\ d_pc' = "done"
    /\ db' = Rollback(db, tx)
    /\ tx' = NoSchema
    /\ DropWait(DbValidator)

\* validate_version: the selectVersion query and the test of the version
VersionGate ==
    /\ DbPolledLast
    /\ d_pc = "version"
    /\ IF VersionMatches(NormalizeVersion(pg_version))
       THEN /\ DbPolled
            /\ d_pc' = "begin"
            /\ UNCHANGED <<db, tx, d_res>>
            /\ UNCHANGED shutdownVars
       ELSE DbAbort("InvalidPostgreSQLVersion")
    /\ UNCHANGED <<pg_version, cfg, stage, d_touched, d_first, runs>>

\* validate_schema: self.pool.get() and client.transaction()
SchemaBegin ==
    /\ DbPolled
    /\ d_pc = "begin"
    /\ tx' = db
    /\ d_pc' = "schema_exists"
    /\ UNCHANGED <<pg_version, cfg, db, stage, d_res, d_touched, d_first, runs>>
    /\ UNCHANGED shutdownVars

\* validate_schema: schemaExists, and schemaCreate if there is no schema
SchemaEnsure ==
    /\ DbPolled
    /\ d_pc = "schema_exists"
    /\ tx' = IF schemaExists(tx) THEN tx ELSE schemaCreate(tx)
    /\ d_touched' = TRUE
    /\ d_pc' = "info_exists"
    /\ UNCHANGED <<pg_version, cfg, db, stage, d_res, d_first, runs>>
    /\ UNCHANGED shutdownVars

\* validate_schema: schemaInfoExists
SchemaInfoExists ==
    /\ DbPolled
    /\ d_pc = "info_exists"
    /\ d_first' = ~schemaInfoExists(tx)
    /\ d_pc' = IF schemaInfoExists(tx) THEN "info_select" ELSE "info_create"
    /\ UNCHANGED <<pg_version, cfg, db, tx, stage, d_res, d_touched, runs>>
    /\ UNCHANGED shutdownVars

\* validate_schema: schemaInfoCreate
SchemaInfoCreate ==
    /\ DbPolled
    /\ d_pc = "info_create"
    /\ tx' = schemaInfoCreate(tx)
    /\ d_pc' = "info_insert"
    /\ UNCHANGED <<pg_version, cfg, db, stage, d_res, d_touched, d_first, runs>>
    /\ UNCHANGED shutdownVars

\* validate_schema: schemaInfoInsert with the stage "#created"
SchemaInfoInsert ==
    /\ DbPolled
    /\ d_pc = "info_insert"
    /\ tx' = schemaInfoInsert(tx, cfg, "#created")
    /\ d_pc' = "create"
    /\ UNCHANGED <<pg_version, cfg, db, stage, d_res, d_touched, d_first, runs>>
    /\ UNCHANGED shutdownVars

\* validate_schema: the create group, blocksSkippedHeightsFnCreate, then
\* self.set_stage("#created")
SchemaCreateTables ==
    /\ DbPolled
    /\ d_pc = "create"
    /\ stage' = "#created"
    /\ d_pc' = "commit"
    /\ UNCHANGED <<pg_version, cfg, db, tx, d_res, d_touched, d_first, runs>>
    /\ UNCHANGED shutdownVars

\* validate_schema: schemaInfoSelect with query_one and expect, the four
\* asserts, then self.set_stage(row.get("stage"))
SchemaInfoSelect ==
    /\ DbPolledLast
    /\ d_pc = "info_select"
    /\ IF Len(tx.rows) # 1
       THEN /\ DbAbort("panic")
            /\ UNCHANGED stage
       ELSE IF SchemaMismatch(schemaInfoSelect(tx), cfg) # "none"
       THEN /\ DbAbort("InvalidSchemaItem")
            /\ UNCHANGED stage
       ELSE /\ DbPolled
            /\ stage' = schemaInfoSelect(tx).stage
            /\ d_pc' = "commit"
            /\ UNCHANGED <<db, tx, d_res>>
            /\ UNCHANGED shutdownVars
    /\ UNCHANGED <<pg_version, cfg, d_touched, d_first, runs>>

\* validate_schema: tx.commit() and Ok(())
SchemaCommit ==
    /\ DbPolledLast
    /\ d_pc = "commit"
    /\ db' = tx
    /\ tx' = NoSchema
    /\ d_res' = "Ok"
    /\ d_pc' = "done"
    /\ DropWait(DbValidator)
    /\ UNCHANGED <<pg_version, cfg, stage, d_touched, d_first, runs>>

\* an await on the pool or on a query returns an error and ? returns it
DbQueryFails ==
    /\ DbPolledLast
    /\ DbAbort("DataBaseError")
    /\ UNCHANGED <<pg_version, cfg, stage, d_touched, d_first, runs>>

\* select!: e = shutdown.wait() => Err(e.into()); the validation future is
\* dropped with its transaction
DbCancelled ==
    /\ d_pc \in DbSteps
    /\ spc[DbValidator] = "returned"
    /\ d_res' = "ShutdownSignal"
    /\ d_pc' = "done"
    /\ db' = Rollback(db, tx)
    /\ tx' = NoSchema
    /\ UNCHANGED <<pg_version, cfg, stage, d_touched, d_first, runs>>
    /\ UNCHANGED shutdownVars

\* the process is started again with a configuration c: DataBase::from_args
\* and Shutdown::new
DbRestart(c) ==
    /\ d_pc = "done"
    /\ runs < MaxRuns
    /\ runs' = runs + 1
    /\ cfg' = c
    /\ stage' = "#none"
    /\ d_pc' = "version"
    /\ d_res' = "none"
    /\ d_touched' = FALSE
    /\ d_first' = FALSE
    /\ notified' = FALSE
    /\ permit' = FALSE
    /\ waiters' = <<>>
    /\ spc' = [t \in Tasks |-> "idle"]
    /\ check_res' = [t \in Tasks |-> "none"]
    /\ cancels' = [t \in Tasks |-> 0]
    /\ trips' = 0
    /\ UNCHANGED <<pg_version, db, tx>>

\* ------------------------------------------- H256 hex form (fixed_hash.rs)
\* the digits hex::encode writes
HexLower == <<"0", "1", "2", "3", "4", "5", "6", "7", "8", "9", "a", "b", "c", "d", "e", "f">>

\* the digits hex::decode_to_slice reads besides the lower-case ones
HexUpper == <<"0", "1", "2", "3", "4", "5", "6", "7", "8", "9", "A", "B", "C", "D", "E", "F">>

\* byte values the hashes are built of
SampleBytes == {0, 9, 10, 16, 159, 171, 255}

\* characters the texts are built of
SampleChars == {"0", "9", "a", "f", "A", "g"}

H256 == [1..HashBytes -> SampleBytes]

Texts == UNION {[1..n -> SampleChars] : n \in 0..MaxTextLen}

\* H256::zero()
zero == [i \in 1..HashBytes |-> 0]

\* hex::encode: two lower-case digits per byte, high nibble first
encode(hash) ==
    [i \in 1..(2 * HashBytes) |->
        LET b == hash[(i + 1) \div 2]
        IN  IF i % 2 = 1 THEN HexLower[(b \div 16) + 1] ELSE HexLower[(b % 16) + 1]]

\* the value of one hex digit, -1 for any other character
val(c) ==
    IF \E d \in 1..16 : HexLower[d] = c THEN (CHOOSE d \in 1..16 : HexLower[d] = c) - 1
    ELSE IF \E d \in 1..16 : HexUpper[d] = c THEN (CHOOSE d \in 1..16 : HexUpper[d] = c) - 1
    ELSE -1

\* hex::decode_to_slice without its length checks: the pairs that fit are
\* decoded, the other bytes keep the zeros of H256::zero()
decode_to_slice_unchecked(v, out) ==
    LET pairs == IF Len(v) \div 2 < Len(out) THEN Len(v) \div 2 ELSE Len(out)
    IN  IF \E i \in 1..(2 * pairs) : val(v[i]) = -1
        THEN [tag |-> "Err", error |-> "InvalidHexCharacter", out |-> out]
        ELSE [tag |-> "Ok", error |-> "",
              out |-> [i \in 1..Len(out) |->
                          IF i <= pairs THEN val(v[2 * i - 1]) * 16 + val(v[2 * i]) ELSE out[i]]]

\* hex::decode_to_slice(v, &mut hash.0): an odd length and a length other than
\* two digits per byte are errors, then every pair is decoded
decode_to_slice(v, out) ==
    IF Len(v) % 2 # 0 THEN [tag |-> "Err", error |-> "OddLength", out |-> out]
    ELSE IF Len(v) \div 2 # Len(out)
    THEN [tag |-> "Err", error |-> "InvalidStringLength", out |-> out]
    ELSE IF \E i \in 1..Len(v) : val(v[i]) = -1
    THEN [tag |-> "Err", error |-> "InvalidHexCharacter", out |-> out]
    ELSE [tag |-> "Ok", error |-> "",
          out |-> [i \in 1..Len(out) |-> val(v[2 * i - 1]) * 16 + val(v[2 * i])]]

\* Visitor::visit_str: every decoding error becomes invalid_length
visit_str(v) ==
    LET res == decode_to_slice(v, zero)
    IN  IF res.tag = "Ok" THEN [tag |-> "Ok", error |-> "", hash |-> res.out]
        ELSE [tag |-> "Err", error |-> "invalid_length", hash |-> zero]

NoHexRet == [tag |-> "none", error |-> "", hash |-> zero]

\* format!("{}", hex::encode(hash)) of the round-trip test
Encode ==
    /\ hx_pc = "hash"
    /\ hx_str' = encode(hx_hash.v)
    /\ hx_pc' = "str"
    /\ UNCHANGED <<hx_hash, hx_ret>>

\* H256::deserialize_hex on a JSON string
DeserializeHex ==
    /\ hx_pc = "str"
    /\ hx_ret' = visit_str(hx_str)
    /\ hx_pc' = "done"
    /\ UNCHANGED <<hx_hash, hx_str>>

InitHexOf(from, hash, text) ==
    /\ hx_pc = from
    /\ hx_hash = hash
    /\ hx_str = text
    /\ hx_ret = NoHexRet

InitHexVars == InitHexOf("str", OptNone, <<>>)

\* ------------------------------- locks of the block prefetcher (4.E, 5)
\* the task that runs StartSyncBlocksGenerator::new
NewTask == 0

\* the writer tasks that call next()
Consumers == 1..LockConsumers

\* the task of start_status_update_loop
StatusLoop == LockConsumers + 1

\* the fetch task spawned for the k-th pulled height
FetchTask(k) == LockConsumers + 1 + k

FetchTasks == {FetchTask(k) : k \in 1..LockHeights}

Procs == {NewTask} \cup Consumers \cup {StatusLoop} \cup FetchTasks

\* heights, blocks_tx and blocks of StartSyncBlocksGenerator
Mutexes == {"heights", "blocks_tx", "blocks"}

\* the prefetch window of a catch-up run with LockConsumers writers
LockPrefetchSize == LockConsumers + PrefetchExtra

\* number of heights pulled so far
Pulled == LockHeights - lk_gen.left

\* Mutex::lock().await returns
Lock(p, m) ==
    /\ lk_held[m] = -1
    /\ lk_held' = [lk_held EXCEPT ![m] = p]

\* the guards of p are dropped
Unlock(p) == lk_held' = [m \in Mutexes |-> IF lk_held[m] = p THEN -1 ELSE lk_held[m]]

\* RwLock::read() / write() is called: the request queues up
RwRequest(p, kind) == lk_rw' = [lk_rw EXCEPT !.queue = Append(@, <<p, kind>>)]

\* the request at the head of the queue can be granted
RwGrantable ==
    /\ lk_rw.queue # <<>>
    /\ lk_rw.writer = -1
    /\ lk_rw.queue[1][2] = "w" => lk_rw.readers = {}

\* RwLock::read() / write() returns for the request at the head of the queue
RwGrant ==
    /\ RwGrantable
    /\ LET p == lk_rw.queue[1][1]
           kind == lk_rw.queue[1][2]
       IN  /\ lk_rw' = [readers |-> IF kind = "r" THEN lk_rw.readers \cup {p} ELSE lk_rw.readers,
                        writer |-> IF kind = "w" THEN p ELSE -1,
                        queue |-> Tail(lk_rw.queue)]
           /\ lk_pc' = [lk_pc EXCEPT ![p] = IF p = StatusLoop
                                             THEN (IF kind = "r" THEN "s_reading" ELSE "s_writing")
                                             ELSE "p_read"]
    /\ UNCHANGED <<lk_held, lk_gen, lk_slots, lk_rx>>

\* the read or write guard of p is dropped
RwRelease(p) ==
    lk_rw' = [lk_rw EXCEPT !.readers = @ \ {p}, !.writer = IF @ = p THEN -1 ELSE @]

\* where the caller of prefetch() goes on
AfterPrefetch(p) ==
    IF p = NewTask
    THEN (IF lk_gen.built + 1 = LockPrefetchSize THEN "returned" ELSE "prefetch")
    ELSE "subscribe"

\* new() has returned and start_sync spawns the writer tasks
SpawnedBy(p, q) ==
    p = NewTask /\ lk_gen.built + 1 = LockPrefetchSize /\ q \in Consumers

\* prefetch(): let mut blocks = self.blocks.lock().await
PrefetchLockBlocks(p) ==
    /\ lk_pc[p] = "prefetch"
    /\ Lock(p, "blocks")
    /\ lk_pc' = [lk_pc EXCEPT ![p] = "p_heights"]
    /\ UNCHANGED <<lk_rw, lk_gen, lk_slots, lk_rx>>

\* prefetch(): self.heights.lock().await
PrefetchLockHeights(p) ==
    /\ lk_pc[p] = "p_heights"
    /\ Lock(p, "heights")
    /\ lk_pc' = [lk_pc EXCEPT ![p] = "p_pull"]
    /\ UNCHANGED <<lk_rw, lk_gen, lk_slots, lk_rx>>

\* StartSyncBlockHeightsGenerator::next up to self.status.read(): a finished
\* generator returns None at once and prefetch() returns
PrefetchPull(p) ==
    /\ lk_pc[p] = "p_pull"
    /\ IF lk_gen.finished
       THEN /\ Unlock(p)
            /\ lk_pc' = [q \in Procs |-> IF q = p THEN AfterPrefetch(p)
                                         ELSE IF SpawnedBy(p, q) THEN "prefetch" ELSE lk_pc[q]]
            /\ lk_gen' = [lk_gen EXCEPT !.built = IF p = NewTask THEN @ + 1 ELSE @]
            /\ UNCHANGED lk_rw
       ELSE /\ RwRequest(p, "r")
            /\ lk_pc' = [lk_pc EXCEPT ![p] = "p_status"]
            /\ UNCHANGED <<lk_held, lk_gen>>
    /\ UNCHANGED <<lk_slots, lk_rx>>

\* the rest of prefetch() once the status was read: the read guard is
\* dropped, a height is inserted and its fetch task spawned, or the generator
\* ends; then the guards of heights and blocks are dropped
PrefetchRead(p) ==
    /\ lk_pc[p] = "p_read"
    /\ RwRelease(p)
    /\ Unlock(p)
    /\ IF lk_gen.left > 0
       THEN /\ lk_gen' = [lk_gen EXCEPT !.left = @ - 1,
                                        !.built = IF p = NewTask THEN @ + 1 ELSE @]
            /\ lk_slots' = [lk_slots EXCEPT ![Pulled + 1] = "in-flight"]
            /\ lk_pc' = [q \in Procs |-> IF q = p THEN AfterPrefetch(p)
                                         ELSE IF q = FetchTask(Pulled + 1) THEN "fetch"
                                         ELSE IF SpawnedBy(p, q) THEN "prefetch" ELSE lk_pc[q]]
       ELSE /\ lk_gen' = [lk_gen EXCEPT !.finished = TRUE,
                                        !.built = IF p = NewTask THEN @ + 1 ELSE @]
            /\ lk_pc' = [q \in Procs |-> IF q = p THEN AfterPrefetch(p)
                                         ELSE IF SpawnedBy(p, q) THEN "prefetch" ELSE lk_pc[q]]
            /\ UNCHANGED lk_slots
    /\ UNCHANGED lk_rx

\* fetch task: (self1.get_block)(height).await returns
FetchReturns(k) ==
    /\ lk_pc[FetchTask(k)] = "fetch"
    /\ lk_pc' = [lk_pc EXCEPT ![FetchTask(k)] = "f_blocks"]
    /\ UNCHANGED <<lk_held, lk_rw, lk_gen, lk_slots, lk_rx>>

\* fetch task: self1.blocks.lock().await, blocks.insert(height, Some(result))
FetchLockBlocks(k) ==
    /\ lk_pc[FetchTask(k)] = "f_blocks"
    /\ Lock(FetchTask(k), "blocks")
    /\ lk_slots' = [lk_slots EXCEPT ![k] = "ready"]
    /\ lk_pc' = [lk_pc EXCEPT ![FetchTask(k)] = "f_tx"]
    /\ UNCHANGED <<lk_rw, lk_gen, lk_rx>>

\* fetch task: self1.blocks_tx.lock().await
FetchLockTx(k) ==
    /\ lk_pc[FetchTask(k)] = "f_tx"
    /\ Lock(FetchTask(k), "blocks_tx")
    /\ lk_pc' = [lk_pc EXCEPT ![FetchTask(k)] = "f_send"]
    /\ UNCHANGED <<lk_rw, lk_gen, lk_slots, lk_rx>>

\* fetch task: send(()), then the task ends and drops both guards
FetchSendUnlock(k) ==
    /\ lk_pc[FetchTask(k)] = "f_send"
    /\ lk_rx' = [c \in Consumers |->
                    IF lk_pc[c] \in {"scan", "scanning", "recv"} THEN 1 ELSE lk_rx[c]]
    /\ Unlock(FetchTask(k))
    /\ lk_pc' = [lk_pc EXCEPT ![FetchTask(k)] = "ended"]
    /\ UNCHANGED <<lk_rw, lk_gen, lk_slots>>

\* next(): self.blocks_tx.lock().await
SubscribeLock(c) ==
    /\ lk_pc[c] = "subscribe"
    /\ Lock(c, "blocks_tx")
    /\ lk_pc' = [lk_pc EXCEPT ![c] = "subscribing"]
    /\ UNCHANGED <<lk_rw, lk_gen, lk_slots, lk_rx>>

\* a next() that keeps the guard of blocks_tx while it scans
SubscribeKeep(c) ==
    /\ lk_pc[c] = "subscribing"
    /\ lk_rx' = [lk_rx EXCEPT ![c] = 0]
    /\ lk_pc' = [lk_pc EXCEPT ![c] = "scan"]
    /\ UNCHANGED <<lk_held, lk_rw, lk_gen, lk_slots>>

\* next(): .subscribe(), the guard of blocks_tx is dropped with the statement
SubscribeUnlock(c) ==
    /\ lk_pc[c] = "subscribing"
    /\ lk_rx' = [lk_rx EXCEPT ![c] = 0]
    /\ Unlock(c)
    /\ lk_pc' = [lk_pc EXCEPT ![c] = "scan"]
    /\ UNCHANGED <<lk_rw, lk_gen, lk_slots>>

\* next(): let mut blocks = self.blocks.lock().await
ScanLock(c) ==
    /\ lk_pc[c] = "scan"
    /\ Lock(c, "blocks")
    /\ lk_pc' = [lk_pc EXCEPT ![c] = "scanning"]
    /\ UNCHANGED <<lk_rw, lk_gen, lk_slots, lk_rx>>

\* next(): the tests under the guard; every way out drops the guard
ScanUnlock(c) ==
    /\ lk_pc[c] = "scanning"
    /\ Unlock(c)
    /\ IF \A k \in 1..LockHeights : lk_slots[k] \notin {"in-flight", "ready"}
       THEN \* return Ok(None): the writer task ends
            /\ lk_pc' = [lk_pc EXCEPT ![c] = "ended"]
            /\ UNCHANGED lk_slots
       ELSE IF \E k \in 1..LockHeights : lk_slots[k] = "ready"
       THEN \* the block is returned and pushed, next() is called again
            /\ lk_slots' = [lk_slots EXCEPT
                              ![SetMin({k \in 1..LockHeights : lk_slots[k] = "ready"})] = "removed"]
            /\ lk_pc' = [lk_pc EXCEPT ![c] = "prefetch"]
       ELSE /\ lk_pc' = [lk_pc EXCEPT ![c] = "recv"]
            /\ UNCHANGED lk_slots
    /\ UNCHANGED <<lk_rw, lk_gen, lk_rx>>

\* next(): rx.recv().await returns
RecvReturns(c) ==
    /\ lk_pc[c] = "recv"
    /\ lk_rx[c] > 0
    /\ lk_rx' = [lk_rx EXCEPT ![c] = 0]
    /\ lk_pc' = [lk_pc EXCEPT ![c] = "scan"]
    /\ UNCHANGED <<lk_held, lk_rw, lk_gen, lk_slots>>

\* update_status: self.status.read() is called
StatusReadRequest ==
    /\ lk_pc[StatusLoop] = "s_loop"
    /\ RwRequest(StatusLoop, "r")
    /\ lk_pc' = [lk_pc EXCEPT ![StatusLoop] = "s_status"]
    /\ UNCHANGED <<lk_held, lk_gen, lk_slots, lk_rx>>

\* update_status: the comparison; the read guard is dropped with the
\* condition, then self.status.write() is called when the status differs
StatusCompare ==
    /\ lk_pc[StatusLoop] = "s_reading"
    /\ \/ /\ lk_rw' = [lk_rw EXCEPT !.readers = @ \ {StatusLoop}]
          /\ lk_pc' = [lk_pc EXCEPT ![StatusLoop] = "s_loop"]
       \/ /\ lk_rw' = [lk_rw EXCEPT !.readers = @ \ {StatusLoop},
                                    !.queue = Append(@, <<StatusLoop, "w">>)]
          /\ lk_pc' = [lk_pc EXCEPT ![StatusLoop] = "s_status"]
    /\ UNCHANGED <<lk_held, lk_gen, lk_slots, lk_rx>>

\* update_status: merge(status), the write guard is dropped
StatusMerge ==
    /\ lk_pc[StatusLoop] = "s_writing"
    /\ RwRelease(StatusLoop)
    /\ lk_pc' = [lk_pc EXCEPT ![StatusLoop] = "s_loop"]
    /\ UNCHANGED <<lk_held, lk_gen, lk_slots, lk_rx>>

InitLockVars ==
    /\ lk_pc = [p \in Procs |-> IF p = NewTask THEN "prefetch"
                                ELSE IF p = StatusLoop THEN "s_loop" ELSE "unspawned"]
    /\ lk_held = [m \in Mutexes |-> -1]
    /\ lk_rw = [readers |-> {}, writer |-> -1, queue |-> <<>>]
    /\ lk_gen = [left |-> LockHeights, finished |-> FALSE, built |-> 0]
    /\ lk_slots = [k \in 1..LockHeights |-> "none"]
    /\ lk_rx = [c \in Consumers |-> 0]

\* ------------------------------------------------------ specifications
\* no delay_for call has been made
InitDelay ==
    /\ delay_timer = [t \in Tasks |-> "off"]
    /\ delay_res = [t \in Tasks |-> "none"]
    /\ tripped_in_time = [t \in Tasks |-> FALSE]

\* ShutdownSignals::new with every registration successful, the listener
\* spawned and waiting in its first s.next()
InitSignalsOf(registered) ==
    /\ streams = registered
    /\ sig_ready = {}
    /\ sig_pc = "first"
    /\ received = 0
    /\ delivered = 0

\* the process runs
InitProcess ==
    /\ exit_code = -1
    /\ exit_by = "none"

\* Bitcoind::from_args for the given coin and chain, validate not started
InitValidateOf(rest, chain) ==
    /\ has_rest = rest
    /\ chain_arg = chain
    /\ v_pc = "init_select"
    /\ v_rpc = NoResponse
    /\ v_retries = 0
    /\ v_init = "running"
    /\ chk = [c \in Checks |-> NoResponse]
    /\ sn_rpc = NoResponse
    /\ sn_rest = NoResponse
    /\ check_reqs = {}
    /\ v_res = NoResponse

\* Indexer::from_args: start has not been polled
InitStartVars ==
    /\ start_pc = "connect"
    /\ db_valid = "pending"
    /\ node_valid = "pending"
    /\ connect_res = NoError
    /\ seeded = FALSE
    /\ st_pc = "check"
    /\ st_res = NoError
    /\ start_res = NoError

\* RPCClient::new and RESTClient::new: no request made
InitRpcVars ==
    /\ req_id = 0
    /\ rpc_pc = "idle"
    /\ bh_hash = 0
    /\ rpc_data = NoData
    /\ rest_data = NoRestData
    /\ call_ret = NoResult
    /\ bh_ret = NoResult

\* DataBase::from_args for configuration c, on a server of version v that
\* holds the database d; validate has not been polled
InitSchemaOf(v, c, d) ==
    /\ pg_version = v
    /\ cfg = c
    /\ db = d
    /\ tx = NoSchema
    /\ stage = "#none"
    /\ d_pc = "version"
    /\ d_res = "none"
    /\ d_touched = FALSE
    /\ d_first = FALSE
    /\ runs = 1

InitIo == InitRpcVars /\ InitSchemaOf(<<12, 3>>, BaseConfig, NoSchema) /\ InitHexVars /\ InitLockVars

InitExt ==
    /\ InitDelay
    /\ InitSignalsOf(sig_map)
    /\ InitProcess
    /\ InitValidateOf(FALSE, "main")
    /\ InitStartVars
    /\ InitIo

\* Shutdown::new
InitShutdown ==
    /\ notified = FALSE
    /\ permit = FALSE
    /\ waiters = <<>>
    /\ spc = [t \in Tasks |-> "idle"]
    /\ check_res = [t \in Tasks |-> "none"]
    /\ cancels = [t \in Tasks |-> 0]
    /\ trips = 0

\* the state of start_sync after StartSyncBlockHeightsGenerator::new, for the
\* given database, configuration and seeded status
InitSyncWith(d, initial, start, threads, checks, node_height, cap) ==
    /\ capacity = cap
    /\ db_bestblock = get_bestblock_info(d)
    /\ initial_sync = initial
    /\ service_sync_from = start
    /\ sync_threads = threads
    /\ overflow_checks = checks
    /\ node_syncing_height = node_height
    /\ node_syncing_hash = DefaultHash
    /\ node_info = [blocks |-> node_height, bestblockhash |-> DefaultHash]
    /\ finished = FALSE
    /\ skipped_heights = NewSkippedHeights(d, start, initial)
    /\ next_height = NewNextHeight(get_bestblock_info(d), start)
    /\ blocks = EmptyBlocks
    /\ blocks_lock = -1
    /\ rx = [c \in Writers |-> 0]
    /\ sync_pc = "construct"
    /\ prefetched = 0
    /\ pc = [c \in Writers |-> IF c <= jobs THEN "next" ELSE "unused"]
    /\ cur = [c \in Writers |-> -1]
    /\ emitted = <<>>
    /\ lastPull = [tag |-> "Init", restart |-> FALSE]
    /\ fetching = {}
    /\ hit = {}
    /\ returned = <<>>
    /\ pushed = <<>>

\* the run of start_sync with broadcast::channel(128)
InitSyncOf(d, initial, start, threads, checks, node_height) ==
    InitSyncWith(d, initial, start, threads, checks, node_height, ChannelCapacity)

InitSync ==
    \E d \in SUBSET (0..MaxDbHeight), initial \in BOOLEAN, start \in 0..MaxSyncFrom,
       threads \in 1..MaxSyncThreads, checks \in BOOLEAN, node_height \in 0..MaxNodeHeight :
        InitSyncOf(d, initial, start, threads, checks, node_height)

Init == InitSync /\ InitShutdown /\ InitExt

Next ==
    \/ (ConstructPrefetch /\ UNCHANGED <<shutdownVars, extVars>>)
    \/ \E h \in Heights : (FetchInsert(h) /\ UNCHANGED <<shutdownVars, extVars>>)
    \/ \E h \in Heights : (FetchSend(h) /\ UNCHANGED <<shutdownVars, extVars>>)
    \/ \E c \in Writers : (NextPrefetch(c) /\ UNCHANGED <<shutdownVars, extVars>>)
    \/ \E c \in Writers : (NextSubscribe(c) /\ UNCHANGED <<shutdownVars, extVars>>)
    \/ \E c \in Writers : (NextScan(c) /\ UNCHANGED <<shutdownVars, extVars>>)
    \/ \E c \in Writers : (NextRecv(c) /\ UNCHANGED <<shutdownVars, extVars>>)
    \/ \E c \in Writers : (PushBlock(c) /\ UNCHANGED <<shutdownVars, extVars>>)
    \/ (UpdateStatus /\ UNCHANGED <<shutdownVars, extVars>>)

Spec == Init /\ [][Next]_vars

\* cold start: empty database, sync from 0, a node height >= 3 that stays
InitCold ==
    /\ \E initial \in BOOLEAN, threads \in 1..MaxSyncThreads, checks \in BOOLEAN,
          node_height \in ConfirmationDepth..MaxNodeHeight :
            InitSyncOf({}, initial, 0, threads, checks, node_height)
    /\ InitShutdown
    /\ InitExt

NextCold ==
    \/ (ConstructPrefetch /\ UNCHANGED <<shutdownVars, extVars>>)
    \/ \E h \in Heights : (FetchInsert(h) /\ UNCHANGED <<shutdownVars, extVars>>)
    \/ \E h \in Heights : (FetchSend(h) /\ UNCHANGED <<shutdownVars, extVars>>)
    \/ \E c \in Writers : (NextPrefetch(c) /\ UNCHANGED <<shutdownVars, extVars>>)
    \/ \E c \in Writers : (NextSubscribe(c) /\ UNCHANGED <<shutdownVars, extVars>>)
    \/ \E c \in Writers : (NextScan(c) /\ UNCHANGED <<shutdownVars, extVars>>)
    \/ \E c \in Writers : (NextRecv(c) /\ UNCHANGED <<shutdownVars, extVars>>)
    \/ \E c \in Writers : (PushBlock(c) /\ UNCHANGED <<shutdownVars, extVars>>)

SpecCold == InitCold /\ [][NextCold]_vars

\* the latch alone: the sync pipeline stays as constructed
InitLatch == InitSyncOf({}, TRUE, 0, 1, FALSE, 0) /\ InitShutdown /\ InitExt

NextShutdown ==
    \/ (Set /\ UNCHANGED <<syncVars, extVars>>)
    \/ \E t \in Tasks : (IsRecvCall(t) /\ UNCHANGED <<syncVars, extVars>>)
    \/ \E t \in Tasks : (IsRecv(t) /\ UNCHANGED <<syncVars, extVars>>)
    \/ \E t \in Tasks : (WaitCall(t) /\ UNCHANGED <<syncVars, extVars>>)
    \/ \E t \in Tasks : (WaitRead(t) /\ UNCHANGED <<syncVars, extVars>>)
    \/ \E t \in Tasks : (WaitNotified(t) /\ UNCHANGED <<syncVars, extVars>>)
    \/ \E t \in Tasks : (WaitResume(t) /\ UNCHANGED <<syncVars, extVars>>)

SpecShutdown == InitLatch /\ [][NextShutdown]_vars

\* a task that is runnable inside wait() is scheduled; nothing obliges
\* anyone to call set, wait or is_recv
ShutdownFairness ==
    \A t \in Tasks : /\ WF_vars(WaitRead(t) /\ UNCHANGED <<syncVars, extVars>>)
                     /\ WF_vars(WaitNotified(t) /\ UNCHANGED <<syncVars, extVars>>)
                     /\ WF_vars(WaitResume(t) /\ UNCHANGED <<syncVars, extVars>>)
                     /\ WF_vars(IsRecv(t) /\ UNCHANGED <<syncVars, extVars>>)

SpecShutdownFair == InitLatch /\ [][NextShutdown]_vars /\ ShutdownFairness

\* the latch with tasks that call delay_for or wait
NextDelay ==
    \/ (Set /\ UNCHANGED <<syncVars, extVars>>)
    \/ \E t \in Tasks : (WaitCall(t) /\ UNCHANGED <<syncVars, extVars>>)
    \/ \E t \in Tasks : (WaitRead(t) /\ UNCHANGED <<syncVars, extVars>>)
    \/ \E t \in Tasks : (WaitNotified(t) /\ UNCHANGED <<syncVars, extVars>>)
    \/ \E t \in Tasks : (WaitResume(t) /\ UNCHANGED <<syncVars, extVars>>)
    \/ \E t \in Tasks : (DelayCall(t) /\ UNCHANGED <<syncVars, signalVars, processVars, validateVars, startVars, ioVars>>)
    \/ \E t \in Tasks : (TimerElapse(t) /\ UNCHANGED <<syncVars, signalVars, processVars, validateVars, startVars, ioVars>>)
    \/ \E t \in Tasks : (DelayCancelled(t) /\ UNCHANGED <<syncVars, signalVars, processVars, validateVars, startVars, ioVars>>)
    \/ \E t \in Tasks : (DelayElapsed(t) /\ UNCHANGED <<syncVars, signalVars, processVars, validateVars, startVars, ioVars>>)

SpecDelay == InitLatch /\ [][NextDelay]_vars

\* the listener of subscribe() with tasks that wait on the latch; any of the
\* registrations of ShutdownSignals::new may have failed
InitSignals ==
    /\ InitSyncOf({}, TRUE, 0, 1, FALSE, 0)
    /\ InitShutdown
    /\ InitDelay
    /\ InitProcess
    /\ InitValidateOf(FALSE, "main")
    /\ InitStartVars
    /\ InitIo
    /\ \E S \in SUBSET Range(sig_map) : InitSignalsOf(RegisteredStreams(S))

NextSignals ==
    \/ \E k \in DeliveredKinds : (Deliver(k) /\ UNCHANGED <<syncVars, shutdownVars, delayVars, validateVars, startVars, ioVars>>)
    \/ (ListenerRecv /\ UNCHANGED <<syncVars, shutdownVars, delayVars, validateVars, startVars, ioVars>>)
    \/ (ListenerSet /\ UNCHANGED <<syncVars, delayVars, validateVars, startVars, ioVars>>)
    \/ (ListenerExit /\ UNCHANGED <<syncVars, shutdownVars, delayVars, validateVars, startVars, ioVars>>)
    \/ \E t \in Tasks : (Running /\ WaitCall(t) /\ UNCHANGED <<syncVars, extVars>>)
    \/ \E t \in Tasks : (Running /\ WaitRead(t) /\ UNCHANGED <<syncVars, extVars>>)
    \/ \E t \in Tasks : (Running /\ WaitNotified(t) /\ UNCHANGED <<syncVars, extVars>>)
    \/ \E t \in Tasks : (Running /\ WaitResume(t) /\ UNCHANGED <<syncVars, extVars>>)

SpecSignals == InitSignals /\ [][NextSignals]_vars

\* Bitcoind::validate with the latch: the validator task, the task of
\* DataBase::validate waiting on the latch beside it, set() called by anyone
InitValidate ==
    /\ InitSyncOf({}, TRUE, 0, 1, FALSE, 0)
    /\ InitShutdown
    /\ InitDelay
    /\ InitSignalsOf(sig_map)
    /\ InitProcess
    /\ InitStartVars
    /\ InitIo
    /\ \E rest \in BOOLEAN, chain \in {"main", "test"} : InitValidateOf(rest, chain)

NextValidate ==
    \/ (Set /\ UNCHANGED <<syncVars, extVars>>)
    \/ (WaitCall(DbValidator) /\ UNCHANGED <<syncVars, extVars>>)
    \/ \E t \in Tasks : (WaitRead(t) /\ UNCHANGED <<syncVars, extVars>>)
    \/ \E t \in Tasks : (WaitNotified(t) /\ UNCHANGED <<syncVars, extVars>>)
    \/ \E t \in Tasks : (WaitResume(t) /\ UNCHANGED <<syncVars, extVars>>)
    \/ (InitSelect /\ UNCHANGED <<syncVars, delayVars, signalVars, processVars, startVars, ioVars>>)
    \/ (InitRespond /\ UNCHANGED <<syncVars, delayVars, signalVars, processVars, startVars, ioVars>>)
    \/ (InitRpcBranch /\ UNCHANGED <<syncVars, delayVars, signalVars, processVars, startVars, ioVars>>)
    \/ (InitSleep /\ UNCHANGED <<syncVars, delayVars, signalVars, processVars, startVars, ioVars>>)
    \/ (InitWaitBranch /\ UNCHANGED <<syncVars, delayVars, signalVars, processVars, startVars, ioVars>>)
    \/ (ValidateInitFailed /\ UNCHANGED <<syncVars, delayVars, signalVars, processVars, startVars, ioVars>>)
    \/ (ChecksStart /\ UNCHANGED <<syncVars, delayVars, signalVars, processVars, startVars, ioVars>>)
    \/ (ChainRespond /\ UNCHANGED <<syncVars, delayVars, signalVars, processVars, startVars, ioVars>>)
    \/ (VersionRespond /\ UNCHANGED <<syncVars, delayVars, signalVars, processVars, startVars, ioVars>>)
    \/ (SameNodeRpcRespond /\ UNCHANGED <<syncVars, delayVars, signalVars, processVars, startVars, ioVars>>)
    \/ (SameNodeRestRespond /\ UNCHANGED <<syncVars, delayVars, signalVars, processVars, startVars, ioVars>>)
    \/ (ValidateReturn /\ UNCHANGED <<syncVars, delayVars, signalVars, processVars, startVars, ioVars>>)

SpecValidate == InitValidate /\ [][NextValidate]_vars

\* the whole indexer: the listener, start with connect, the seed, the status
\* loop and the sync pipeline on an empty database, and the exit of main
InitStart ==
    /\ \E initial \in BOOLEAN, threads \in 1..MaxSyncThreads :
          InitSyncOf({}, initial, 0, threads, FALSE, 0)
    /\ InitShutdown
    /\ InitExt

NextStart ==
    \/ (Deliver(sig_map[1]) /\ UNCHANGED <<syncVars, shutdownVars, delayVars, validateVars, startVars, ioVars>>)
    \/ (ListenerRecv /\ UNCHANGED <<syncVars, shutdownVars, delayVars, validateVars, startVars, ioVars>>)
    \/ (ListenerSet /\ UNCHANGED <<syncVars, delayVars, validateVars, startVars, ioVars>>)
    \/ (ListenerExit /\ UNCHANGED <<syncVars, shutdownVars, delayVars, validateVars, startVars, ioVars>>)
    \/ (ConnectDb /\ UNCHANGED <<syncVars, shutdownVars, delayVars, signalVars, processVars, validateVars, ioVars>>)
    \/ (ConnectNode /\ UNCHANGED <<syncVars, shutdownVars, delayVars, signalVars, processVars, validateVars, ioVars>>)
    \/ (ConnectReturn /\ UNCHANGED <<syncVars, shutdownVars, delayVars, signalVars, processVars, validateVars, ioVars>>)
    \/ (AfterConnect /\ UNCHANGED <<syncVars, shutdownVars, delayVars, signalVars, processVars, validateVars, ioVars>>)
    \/ (Seed /\ UNCHANGED <<shutdownVars, delayVars, signalVars, processVars, validateVars, ioVars>>)
    \/ (StatusCheck /\ UNCHANGED <<syncVars, shutdownVars, delayVars, signalVars, processVars, validateVars, ioVars>>)
    \/ (StatusUpdate /\ UNCHANGED <<shutdownVars, delayVars, signalVars, processVars, validateVars, ioVars>>)
    \/ (StatusNoDelay /\ UNCHANGED <<syncVars, shutdownVars, delayVars, signalVars, processVars, validateVars, ioVars>>)
    \/ (StatusDelayCall /\ UNCHANGED <<syncVars, signalVars, processVars, validateVars, ioVars>>)
    \/ (LoopsRunning /\ WaitRead(StatusTask) /\ UNCHANGED <<syncVars, extVars>>)
    \/ (LoopsRunning /\ WaitNotified(StatusTask) /\ UNCHANGED <<syncVars, extVars>>)
    \/ (LoopsRunning /\ WaitResume(StatusTask) /\ UNCHANGED <<syncVars, extVars>>)
    \/ (LoopsRunning /\ TimerElapse(StatusTask) /\ UNCHANGED <<syncVars, signalVars, processVars, validateVars, startVars, ioVars>>)
    \/ (LoopsRunning /\ DelayCancelled(StatusTask) /\ UNCHANGED <<syncVars, signalVars, processVars, validateVars, startVars, ioVars>>)
    \/ (LoopsRunning /\ DelayElapsed(StatusTask) /\ UNCHANGED <<syncVars, signalVars, processVars, validateVars, startVars, ioVars>>)
    \/ (StatusAfterDelay /\ UNCHANGED <<syncVars, signalVars, processVars, validateVars, ioVars>>)
    \/ (LoopsRunning /\ ConstructPrefetch /\ UNCHANGED <<shutdownVars, extVars>>)
    \/ \E h \in Heights : (SpawnedRunning /\ FetchInsert(h) /\ UNCHANGED <<shutdownVars, extVars>>)
    \/ \E h \in Heights : (SpawnedRunning /\ FetchSend(h) /\ UNCHANGED <<shutdownVars, extVars>>)
    \/ \E c \in Writers : (SpawnedRunning /\ NextPrefetch(c) /\ UNCHANGED <<shutdownVars, extVars>>)
    \/ \E c \in Writers : (SpawnedRunning /\ NextSubscribe(c) /\ UNCHANGED <<shutdownVars, extVars>>)
    \/ \E c \in Writers : (SpawnedRunning /\ NextScan(c) /\ UNCHANGED <<shutdownVars, extVars>>)
    \/ \E c \in Writers : (SpawnedRunning /\ NextRecv(c) /\ UNCHANGED <<shutdownVars, extVars>>)
    \/ \E c \in Writers : (SpawnedRunning /\ PushBlock(c) /\ UNCHANGED <<shutdownVars, extVars>>)
    \/ (StartReturn /\ UNCHANGED <<syncVars, delayVars, signalVars, processVars, validateVars, ioVars>>)
    \/ (MainExit /\ UNCHANGED <<syncVars, shutdownVars, delayVars, signalVars, validateVars, startVars, ioVars>>)

SpecStart == InitStart /\ [][NextStart]_vars

\* the runtime polls every runnable future and completes every timer, and
\* the node answers the request of the status loop; nothing obliges a signal
\* to arrive, a validation or a fetch to complete
StartFairness ==
    /\ WF_vars(StatusCheck /\ UNCHANGED <<syncVars, shutdownVars, delayVars, signalVars, processVars, validateVars, ioVars>>)
    /\ WF_vars(StatusUpdate /\ UNCHANGED <<shutdownVars, delayVars, signalVars, processVars, validateVars, ioVars>>)
    /\ WF_vars(StatusDelayCall /\ UNCHANGED <<syncVars, signalVars, processVars, validateVars, ioVars>>)
    /\ WF_vars(LoopsRunning /\ WaitRead(StatusTask) /\ UNCHANGED <<syncVars, extVars>>)
    /\ WF_vars(LoopsRunning /\ WaitNotified(StatusTask) /\ UNCHANGED <<syncVars, extVars>>)
    /\ WF_vars(LoopsRunning /\ WaitResume(StatusTask) /\ UNCHANGED <<syncVars, extVars>>)
    /\ WF_vars(LoopsRunning /\ TimerElapse(StatusTask) /\ UNCHANGED <<syncVars, signalVars, processVars, validateVars, startVars, ioVars>>)
    /\ WF_vars(LoopsRunning /\ DelayCancelled(StatusTask) /\ UNCHANGED <<syncVars, signalVars, processVars, validateVars, startVars, ioVars>>)
    /\ WF_vars(LoopsRunning /\ DelayElapsed(StatusTask) /\ UNCHANGED <<syncVars, signalVars, processVars, validateVars, startVars, ioVars>>)
    /\ WF_vars(StatusAfterDelay /\ UNCHANGED <<syncVars, signalVars, processVars, validateVars, ioVars>>)
    /\ WF_vars(StartReturn /\ UNCHANGED <<syncVars, delayVars, signalVars, processVars, validateVars, ioVars>>)
    /\ WF_vars(MainExit /\ UNCHANGED <<syncVars, shutdownVars, delayVars, signalVars, validateVars, startVars, ioVars>>)

\* the whole indexer in initial sync: one writer
InitStartFair ==
    /\ InitSyncOf({}, TRUE, 0, 1, FALSE, 0)
    /\ InitShutdown
    /\ InitExt

SpecStartFair == InitStartFair /\ [][NextStart]_vars /\ StartFairness

\* block requests of a node client with or without a REST client
InitRpc ==
    /\ InitSyncOf({}, TRUE, 0, 1, FALSE, 0)
    /\ InitShutdown
    /\ InitDelay
    /\ InitSignalsOf(sig_map)
    /\ InitProcess
    /\ InitStartVars
    /\ \E rest \in BOOLEAN : InitValidateOf(rest, "main")
    /\ InitIo

NextRpc ==
    \/ \E h \in Hashes : (BlockByHashCall(h) /\ UNCHANGED <<syncVars, shutdownVars, delayVars, signalVars, processVars, validateVars, startVars, schemaVars, hexVars, lockVars>>)
    \/ \E data \in RpcResponses : (RpcRespond(data) /\ UNCHANGED <<syncVars, shutdownVars, delayVars, signalVars, processVars, validateVars, startVars, schemaVars, hexVars, lockVars>>)
    \/ \E res \in RestResponses : (RestRespond(res) /\ UNCHANGED <<syncVars, shutdownVars, delayVars, signalVars, processVars, validateVars, startVars, schemaVars, hexVars, lockVars>>)

SpecRpc == InitRpc /\ [][NextRpc]_vars

\* databases a first start can find: none, the schema alone, or the schema
\* with the schema_info row of an earlier bootstrap
InitialDbs ==
    {NoSchema, schemaCreate(NoSchema)}
    \cup {Bootstrapped(c, s) : c \in Configs, s \in Stages}

\* DataBase::validate and Bitcoind::validate under connect, on one database
\* over several process starts
InitDb ==
    /\ InitSyncOf({}, TRUE, 0, 1, FALSE, 0)
    /\ InitShutdown
    /\ InitDelay
    /\ InitSignalsOf(sig_map)
    /\ InitProcess
    /\ InitValidateOf(FALSE, "main")
    /\ InitStartVars
    /\ InitRpcVars
    /\ \E v \in PgVersions, c \in Configs, d \in InitialDbs : InitSchemaOf(v, c, d)
    /\ InitHexVars
    /\ InitLockVars

NextDb ==
    \/ (Set /\ UNCHANGED <<syncVars, extVars>>)
    \/ (WaitCall(Validator) /\ UNCHANGED <<syncVars, extVars>>)
    \/ (d_pc \in DbSteps /\ WaitCall(DbValidator) /\ UNCHANGED <<syncVars, extVars>>)
    \/ \E t \in Tasks : (WaitRead(t) /\ UNCHANGED <<syncVars, extVars>>)
    \/ \E t \in Tasks : (WaitNotified(t) /\ UNCHANGED <<syncVars, extVars>>)
    \/ \E t \in Tasks : (WaitResume(t) /\ UNCHANGED <<syncVars, extVars>>)
    \/ (VersionGate /\ UNCHANGED <<syncVars, delayVars, signalVars, processVars, validateVars, startVars, rpcVars, hexVars, lockVars>>)
    \/ (SchemaBegin /\ UNCHANGED <<syncVars, delayVars, signalVars, processVars, validateVars, startVars, rpcVars, hexVars, lockVars>>)
    \/ (SchemaEnsure /\ UNCHANGED <<syncVars, delayVars, signalVars, processVars, validateVars, startVars, rpcVars, hexVars, lockVars>>)
    \/ (SchemaInfoExists /\ UNCHANGED <<syncVars, delayVars, signalVars, processVars, validateVars, startVars, rpcVars, hexVars, lockVars>>)
    \/ (SchemaInfoCreate /\ UNCHANGED <<syncVars, delayVars, signalVars, processVars, validateVars, startVars, rpcVars, hexVars, lockVars>>)
    \/ (SchemaInfoInsert /\ UNCHANGED <<syncVars, delayVars, signalVars, processVars, validateVars, startVars, rpcVars, hexVars, lockVars>>)
    \/ (SchemaCreateTables /\ UNCHANGED <<syncVars, delayVars, signalVars, processVars, validateVars, startVars, rpcVars, hexVars, lockVars>>)
    \/ (SchemaInfoSelect /\ UNCHANGED <<syncVars, delayVars, signalVars, processVars, validateVars, startVars, rpcVars, hexVars, lockVars>>)
    \/ (SchemaCommit /\ UNCHANGED <<syncVars, delayVars, signalVars, processVars, validateVars, startVars, rpcVars, hexVars, lockVars>>)
    \/ (DbQueryFails /\ UNCHANGED <<syncVars, delayVars, signalVars, processVars, validateVars, startVars, rpcVars, hexVars, lockVars>>)
    \/ (DbCancelled /\ UNCHANGED <<syncVars, delayVars, signalVars, processVars, validateVars, startVars, rpcVars, hexVars, lockVars>>)
    \/ \E c \in Configs : (DbRestart(c) /\ UNCHANGED <<syncVars, delayVars, signalVars, processVars, validateVars, startVars, rpcVars, hexVars, lockVars>>)

SpecDb == InitDb /\ [][NextDb]_vars

\* hex form of H256: either a hash is encoded and the text decoded, or any
\* text is decoded
InitHex ==
    /\ InitSyncOf({}, TRUE, 0, 1, FALSE, 0)
    /\ InitShutdown
    /\ InitDelay
    /\ InitSignalsOf(sig_map)
    /\ InitProcess
    /\ InitValidateOf(FALSE, "main")
    /\ InitStartVars
    /\ InitRpcVars
    /\ InitSchemaOf(<<12, 3>>, BaseConfig, NoSchema)
    /\ \/ \E h \in H256 : InitHexOf("hash", OptSome(h), <<>>)
       \/ \E t \in Texts : InitHexOf("str", OptNone, t)
    /\ InitLockVars

NextHex ==
    \/ (Encode /\ UNCHANGED <<syncVars, shutdownVars, delayVars, signalVars, processVars, validateVars, startVars, rpcVars, schemaVars, lockVars>>)
    \/ (DeserializeHex /\ UNCHANGED <<syncVars, shutdownVars, delayVars, signalVars, processVars, validateVars, startVars, rpcVars, schemaVars, lockVars>>)

SpecHex == InitHex /\ [][NextHex]_vars

\* empty database and a node far ahead: more heights are ready than the
\* prefetch window holds, for one writer and for several; the buffer of the
\* notification channel is scaled down with the window
InitWindow ==
    /\ \E initial \in BOOLEAN, threads \in 1..MaxSyncThreads, cap \in ScaledCapacities :
            InitSyncWith({}, initial, 0, threads, FALSE, MaxWindowHeight + ConfirmationDepth, cap)
    /\ InitShutdown
    /\ InitExt

NextWindow ==
    \/ (ConstructPrefetch /\ UNCHANGED <<shutdownVars, extVars>>)
    \/ \E h \in 0..MaxWindowHeight : (FetchInsert(h) /\ UNCHANGED <<shutdownVars, extVars>>)
    \/ \E h \in 0..MaxWindowHeight : (FetchSend(h) /\ UNCHANGED <<shutdownVars, extVars>>)
    \/ \E c \in Writers : (NextPrefetch(c) /\ UNCHANGED <<shutdownVars, extVars>>)
    \/ \E c \in Writers : (NextSubscribe(c) /\ UNCHANGED <<shutdownVars, extVars>>)
    \/ \E c \in Writers : (NextScan(c) /\ UNCHANGED <<shutdownVars, extVars>>)
    \/ \E c \in Writers : (NextRecv(c) /\ UNCHANGED <<shutdownVars, extVars>>)
    \/ \E c \in Writers : (PushBlock(c) /\ UNCHANGED <<shutdownVars, extVars>>)

SpecWindow == InitWindow /\ [][NextWindow]_vars

\* the tasks of a catch-up run at the level of their locks
InitLocks ==
    /\ InitSyncOf({}, FALSE, 0, 1, FALSE, 0)
    /\ InitShutdown
    /\ InitExt

NextLocks ==
    \/ \E p \in {NewTask} \cup Consumers : (PrefetchLockBlocks(p) /\ UNCHANGED <<syncVars, shutdownVars, delayVars, signalVars, processVars, validateVars, startVars, rpcVars, schemaVars, hexVars>>)
    \/ \E p \in {NewTask} \cup Consumers : (PrefetchLockHeights(p) /\ UNCHANGED <<syncVars, shutdownVars, delayVars, signalVars, processVars, validateVars, startVars, rpcVars, schemaVars, hexVars>>)
    \/ \E p \in {NewTask} \cup Consumers : (PrefetchPull(p) /\ UNCHANGED <<syncVars, shutdownVars, delayVars, signalVars, processVars, validateVars, startVars, rpcVars, schemaVars, hexVars>>)
    \/ \E p \in {NewTask} \cup Consumers : (PrefetchRead(p) /\ UNCHANGED <<syncVars, shutdownVars, delayVars, signalVars, processVars, validateVars, startVars, rpcVars, schemaVars, hexVars>>)
    \/ (RwGrant /\ UNCHANGED <<syncVars, shutdownVars, delayVars, signalVars, processVars, validateVars, startVars, rpcVars, schemaVars, hexVars>>)
    \/ \E k \in 1..LockHeights : (FetchReturns(k) /\ UNCHANGED <<syncVars, shutdownVars, delayVars, signalVars, processVars, validateVars, startVars, rpcVars, schemaVars, hexVars>>)
    \/ \E k \in 1..LockHeights : (FetchLockBlocks(k) /\ UNCHANGED <<syncVars, shutdownVars, delayVars, signalVars, processVars, validateVars, startVars, rpcVars, schemaVars, hexVars>>)
    \/ \E k \in 1..LockHeights : (FetchLockTx(k) /\ UNCHANGED <<syncVars, shutdownVars, delayVars, signalVars, processVars, validateVars, startVars, rpcVars, schemaVars, hexVars>>)
    \/ \E k \in 1..LockHeights : (FetchSendUnlock(k) /\ UNCHANGED <<syncVars, shutdownVars, delayVars, signalVars, processVars, validateVars, startVars, rpcVars, schemaVars, hexVars>>)
    \/ \E c \in Consumers : (SubscribeLock(c) /\ UNCHANGED <<syncVars, shutdownVars, delayVars, signalVars, processVars, validateVars, startVars, rpcVars, schemaVars, hexVars>>)
    \/ \E c \in Consumers : (SubscribeUnlock(c) /\ UNCHANGED <<syncVars, shutdownVars, delayVars, signalVars, processVars, validateVars, startVars, rpcVars, schemaVars, hexVars>>)
    \/ \E c \in Consumers : (ScanLock(c) /\ UNCHANGED <<syncVars, shutdownVars, delayVars, signalVars, processVars, validateVars, startVars, rpcVars, schemaVars, hexVars>>)
    \/ \E c \in Consumers : (ScanUnlock(c) /\ UNCHANGED <<syncVars, shutdownVars, delayVars, signalVars, processVars, validateVars, startVars, rpcVars, schemaVars, hexVars>>)
    \/ \E c \in Consumers : (RecvReturns(c) /\ UNCHANGED <<syncVars, shutdownVars, delayVars, signalVars, processVars, validateVars, startVars, rpcVars, schemaVars, hexVars>>)
    \/ (StatusReadRequest /\ UNCHANGED <<syncVars, shutdownVars, delayVars, signalVars, processVars, validateVars, startVars, rpcVars, schemaVars, hexVars>>)
    \/ (StatusCompare /\ UNCHANGED <<syncVars, shutdownVars, delayVars, signalVars, processVars, validateVars, startVars, rpcVars, schemaVars, hexVars>>)
    \/ (StatusMerge /\ UNCHANGED <<syncVars, shutdownVars, delayVars, signalVars, processVars, validateVars, startVars, rpcVars, schemaVars, hexVars>>)

SpecLocks == InitLocks /\ [][NextLocks]_vars

\* --------------------------------------------------------------- claims
\* the writers spawned by start_sync
Jobs == 1..jobs

\* an emitted height below the first frontier height comes from the replay
\* of the skipped heights
IsSkipped(h) == h < NewNextHeight(db_bestblock, service_sync_from)

\* every writer task has received Ok(None) from next() and ended
AllWritersDone == sync_pc = "running" /\ \A c \in Jobs : pc[c] = "done"

\* C1: the heights of the blocks returned by successive next() calls are
\* strictly ascending, whatever the order in which the fetch tasks complete
C1_NextAscending == StrictlyAscending(returned)

\* C2: the sequence of push_block invocations has strictly ascending heights,
\* with one writer and with several
C2_PushAscending == StrictlyAscending(pushed)

\* C3: every height the height generator returns is at most node_height - 3
\* for the node_height held in IndexerStatus when it is returned
C3_EmittedWithinEnd ==
    [][Len(emitted') > Len(emitted)
         => Last(emitted') <= node_syncing_height - ConfirmationDepth]_vars

\* C4: from an empty database, start 0 and a fixed node height N >= 3, no
\* height outside 0..N-3 is pushed, none is pushed twice, and when all writers
\* have ended without error every height of 0..N-3 has been pushed
C4_ColdStartPushes ==
    /\ Range(pushed) \subseteq 0..(node_syncing_height - ConfirmationDepth)
    /\ Cardinality(Range(pushed)) = Len(pushed)
    /\ AllWritersDone => Range(pushed) = 0..(node_syncing_height - ConfirmationDepth)

\* C4 witness: a cold start has ended with every height pushed, at least two
C4_Witness ==
    /\ AllWritersDone
    /\ Len(pushed) >= 2
    /\ Len(pushed) = node_syncing_height - ConfirmationDepth + 1

\* C5: the skipped heights are emitted in ascending order, all of them before
\* any frontier height, and push_block receives them in ascending order
C5_SkippedReplayAscending ==
    /\ \A i \in 1..Len(emitted) : \A j \in 1..Len(emitted) :
          (i < j /\ IsSkipped(emitted[j]))
              => (IsSkipped(emitted[i]) /\ emitted[i] < emitted[j])
    /\ \A i \in 1..Len(pushed) : \A j \in 1..Len(pushed) :
          (i < j /\ IsSkipped(pushed[i]) /\ IsSkipped(pushed[j])) => pushed[i] < pushed[j]

C7_NextReturns == \A c \in Writers : pc[c] # "panicked"

\* C8: once the latch is tripped every task inside wait(), suspended or
\* racing with the trip, eventually returns from it
C8_WaitersResume ==
    \A t \in Tasks :
        (notified /\ spc[t] \in {"wait", "notified", "suspended", "woken"})
            ~> (spc[t] = "returned")

\* C9: is_recv returns Cancelled exactly when the latch is tripped, and a
\* tripped latch stays tripped
C9_CheckIffTripped ==
    [][/\ notified => notified'
       /\ \A t \in Tasks :
            (spc[t] \in {"is_recv", "is_recv_after"} /\ spc'[t] # spc[t])
                => (check_res'[t] = "Cancelled" <=> notified)]_vars

\* C9 witness: one task was told Ok before the trip, another Cancelled after
C9_Witness ==
    \E t \in Tasks : \E u \in Tasks :
        check_res[t] = "Ok" /\ check_res[u] = "Cancelled" /\ notified

\* C10: a trip of an already tripped latch changes nothing a task can
\* observe: N trips act as one
C10_TripIdempotent ==
    [][(notified /\ trips' = trips + 1) => UNCHANGED <<notified, spc, cancels>>]_vars


\* C11: delay_for returns success only if the duration elapsed without a
\* trip of the latch before it: a call whose timer elapsed with the latch
\* already tripped returns Cancelled, never Ok
C11_DelayCancelledWhenTripped ==
    [][\A t \in Tasks :
          (delay_res[t] = "none" /\ delay_res'[t] = "Ok") => ~tripped_in_time[t]]_vars

C13_ChecksAfterInit ==
    /\ check_reqs # {} => v_init = "Ok"
    /\ v_init \in {"Err", "Cancelled"} => /\ check_reqs = {}
                                          /\ \A c \in Checks : chk[c] = NoResponse
                                          /\ v_res.tag \notin {"none", "Ok"}

\* the initialization wait was cancelled and validate has returned without
\* running a check
C13_Witness == v_init = "Cancelled" /\ v_pc = "done" /\ check_reqs = {}

\* C14: while the initialization wait runs, an RPC error with code -28 is
\* never the result of validate: that answer makes the wait retry; an answer
\* with any other RPC code or a non-RPC error ends the wait with that very
\* error as the result of validate; a successful answer ends it with success
C14_WarmingUpRetried ==
    [][/\ (v_init' # "Ok" => v_res' # [tag |-> "ResultRPC", code |-> WarmingUpCode])
       /\ (v_pc = "init_wait" /\ v_pc' # "init_wait" /\ v_init' # "Cancelled") =>
             IF v_rpc.tag = "Ok" THEN v_init' = "Ok" /\ v_res' = NoResponse
             ELSE IF v_rpc = [tag |-> "ResultRPC", code |-> WarmingUpCode]
             THEN v_init' = "running" /\ v_pc' = "init_sleep" /\ v_res' = NoResponse
             ELSE v_init' = "Err" /\ v_res' = v_rpc]_vars

\* two answers with code -28, then success: validate has returned Ok
C14_Witness == v_retries = 2 /\ v_init = "Ok" /\ v_pc = "done" /\ v_res = OkResponse

\* C15: when the latch is tripped while the initialization wait is retrying
\* (it has seen a -28 answer and has not returned), the wait does not end
\* with success: validate returns Cancelled
C15_CancelledWhileRetrying ==
    [][(v_init = "running" /\ v_retries >= 1 /\ notified /\ v_init' # "running")
          => v_init' # "Ok"]_vars

\* both requests of the cross-client check have been answered with an info
BothInfos == has_rest /\ sn_rpc.tag = "Ok" /\ sn_rest.tag = "Ok"

\* C16: with a REST client, the cross-client check fails with ClientMismatch
\* whenever the info (chain, height, best hash) reported by RPC differs from
\* the one reported by REST, and passes when they are equal; validate then
\* fails, with ClientMismatch unless an earlier check of the join has failed;
\* without a REST client the check passes
C16_ClientMismatch ==
    /\ BothInfos =>
          /\ sn_rpc.info # sn_rest.info <=> chk["same_node"].tag = "ClientMismatch"
          /\ sn_rpc.info = sn_rest.info <=> chk["same_node"] = OkResponse
    /\ (BothInfos /\ v_pc = "done" /\ sn_rpc.info # sn_rest.info) =>
          /\ v_res.tag # "Ok"
          /\ (\A c \in {"chain", "version"} : chk[c].tag \in {"Ok", "inflight"})
                => v_res.tag = "ClientMismatch"
    /\ (v_res = OkResponse /\ has_rest) => (BothInfos /\ sn_rpc.info = sn_rest.info)
    /\ chk["same_node"].tag = "ClientMismatch" => BothInfos
    /\ ~has_rest => chk["same_node"] \in {NoResponse, OkResponse}

\* RPC and REST agree on chain and height and differ in the best hash, and
\* validate has failed with ClientMismatch
C16_Witness ==
    /\ BothInfos
    /\ sn_rpc.info.chain = sn_rest.info.chain
    /\ sn_rpc.info.blocks = sn_rest.info.blocks
    /\ sn_rpc.info.bestblockhash # sn_rest.info.bestblockhash
    /\ v_pc = "done"
    /\ v_res.tag = "ClientMismatch"

\* a height was pulled, a fetch was started or push_block was invoked
SyncWorkDone == prefetched > 0 \/ emitted # <<>> \/ DOMAIN blocks # {} \/ pushed # <<>>

\* C17: no height pull, block fetch or push_block happens before both
\* validations have succeeded and IndexerStatus has been seeded; when a
\* validation fails (for instance with ClientMismatch) no sync work starts
C17_SyncAfterValidation ==
    /\ SyncWorkDone => (db_valid = "Ok" /\ node_valid = "Ok" /\ seeded)
    /\ (db_valid \notin {"pending", "Ok"} \/ node_valid \notin {"pending", "Ok"}) =>
          (~SyncWorkDone /\ ~seeded /\ start_pc \in {"connect", "after_connect", "returned"})

\* the node validation has failed with ClientMismatch, start has returned
\* that error and the process has exited with no sync work done
C17_Witness ==
    /\ node_valid = "BitcoindError::ClientMismatch"
    /\ start_res = "BitcoindError::ClientMismatch"
    /\ exit_code = 1
    /\ ~SyncWorkDone

\* C18: when the status loop or the sync loop has failed with an error that
\* is not the cancellation and start has returned it, the latch has been
\* tripped (the peer task is cancelled through the latch)
C18_FailureTripsLatch ==
    (start_pc = "returned" /\ seeded /\ start_res \notin Cancellations \cup {NoError})
        => notified

\* C19: once next() has returned the error of a failed fetch to a writer,
\* push_block is not invoked again
C19_NoPushAfterFailure ==
    [][(\E c \in Writers : pc[c] = "failed") => pushed' = pushed]_vars

C22_SkippedBeyondEndFails ==
    [][(/\ ~finished
        /\ skipped_heights # <<>>
        /\ node_syncing_height >= ConfirmationDepth
        /\ Last(skipped_heights) > node_syncing_height - ConfirmationDepth
        /\ (skipped_heights' # skipped_heights \/ emitted' # emitted \/ lastPull' # lastPull))
         => (lastPull'.tag = "Panic" /\ emitted' = emitted)]_vars
\* C23: when the database holds a best block whose height + 1 is smaller than
\* the configured sync start, constructing the height generator fails, so
\* that no height is ever pulled from it
C23_ConstructFailsBelowStart ==
    (db_bestblock # -1 /\ db_next_height(db_bestblock) < service_sync_from)
        => (lastPull.tag = "Init" /\ emitted = <<>>)
\* C24: an RPC call whose request got a response fails with NonceMismatch
\* when the response id differs from the request id, whatever the other
\* fields hold; with the ids equal it fails with ResultRPC when the response
\* carries an error, whatever the result holds; with no error it fails with
\* ResultNotFound when the result is absent and returns the result otherwise
C24_CallPrecedence ==
    (rpc_pc = "idle" /\ rpc_data.tag = "Response") =>
        /\ rpc_data.id # req_id => call_ret = Err("NonceMismatch", 0)
        /\ (rpc_data.id = req_id /\ rpc_data.error.some)
             => call_ret = Err("ResultRPC", rpc_data.error.v)
        /\ (rpc_data.id = req_id /\ ~rpc_data.error.some /\ ~rpc_data.result.some)
             => call_ret = Err("ResultNotFound", 0)
        /\ (rpc_data.id = req_id /\ ~rpc_data.error.some /\ rpc_data.result.some)
             => call_ret = Ok(rpc_data.result)

\* a call has returned NonceMismatch for a response with another id that
\* carries an error and a result
C24_Witness ==
    /\ rpc_pc = "idle"
    /\ rpc_data.tag = "Response"
    /\ rpc_data.id # req_id
    /\ rpc_data.error.some
    /\ rpc_data.result.some
    /\ call_ret = Err("NonceMismatch", 0)
C27_SchemaInfoOneRow ==
    /\ (~db.info \/ Len(db.rows) = 1)
    /\ (d_res = "Ok" /\ d_first) =>
          /\ db.info
          /\ db.rows = <<[coin |-> cfg.coin, chain |-> cfg.chain, version |-> cfg.version,
                          extra |-> cfg.extra, stage |-> "#created"]>>
          /\ stage = "#created"

\* a second start has bootstrapped the database after the first start ended
\* without a commit
C27_Witness ==
    /\ runs = 2
    /\ d_first
    /\ d_res = "Ok"
    /\ db.info
    /\ Len(db.rows) = 1
    /\ stage = "#created"

\* the persisted coin, chain, version and extra equal the configured ones
RowMatches(row, c) ==
    /\ row.coin = c.coin
    /\ row.chain = c.chain
    /\ row.version = c.version
    /\ row.extra = c.extra

\* C28: a run that finds the schema_info table and reads a row that differs
\* from the configuration in coin, chain, version or extra returns
\* InvalidSchemaItem, changes nothing in the database and leaves the
\* in-memory stage as it was; when the four items match the stage of the row
\* becomes the in-memory stage, and only then validate can return Ok
C28_SchemaItemsChecked ==
    /\ [][(/\ d_pc = "info_select"
           /\ d_pc' # "info_select"
           /\ d_res' \notin {"DataBaseError", "ShutdownSignal"})
            => IF RowMatches(tx.rows[1], cfg)
               THEN d_pc' = "commit" /\ stage' = tx.rows[1].stage
               ELSE d_res' = "InvalidSchemaItem" /\ db' = db /\ stage' = stage]_vars
    /\ [](d_res = "InvalidSchemaItem" =>
            (stage = "#none" /\ db.info /\ ~RowMatches(db.rows[1], cfg)))
    /\ []((d_res = "Ok" /\ ~d_first) =>
            (RowMatches(db.rows[1], cfg) /\ stage = db.rows[1].stage))

\* validate has failed with InvalidSchemaItem on a row that differs from the
\* configuration in the extra data only
C28_Witness ==
    /\ d_res = "InvalidSchemaItem"
    /\ db.info
    /\ db.rows[1].extra # cfg.extra
    /\ db.rows[1].coin = cfg.coin
    /\ db.rows[1].chain = cfg.chain
    /\ db.rows[1].version = cfg.version
    /\ stage = "#none"
\* C29: a step that changes the node height or the node best hash of
\* IndexerStatus is a step of the refresher, which has got an info from the
\* node and leaves the height generator, the prefetcher and the writers as
\* they are; and the height and the hash held equal the ones of the info the
\* refresher got last
C29_StatusByRefresherOnly ==
    /\ [][(node_syncing_height' # node_syncing_height
             \/ node_syncing_hash' # node_syncing_hash)
            => (/\ node_info' # node_info
                /\ UNCHANGED <<finished, skipped_heights, next_height, blocks, blocks_lock,
                               rx, sync_pc, prefetched, pc, cur, emitted, lastPull, fetching, hit,
                               returned, pushed>>)]_vars
    /\ [](node_syncing_height = node_info.blocks)
    /\ [](node_syncing_hash = node_info.bestblockhash)

\* the status loop has refreshed the status to another hash at the same
\* height after a writer has pushed a block
C29_Witness ==
    /\ pushed # <<>>
    /\ st_pc = "delay"
    /\ node_syncing_height = MaxStartNodeHeight
    /\ node_syncing_hash = MaxHashes
    /\ node_info = [blocks |-> MaxStartNodeHeight, bestblockhash |-> MaxHashes]
\* C30: in initial sync exactly one writer calls next() and push_block and the
\* height generator starts with the skipped heights the database reports; in
\* catch-up the writers are as many as sync_threads and the generator has no
\* skipped heights
C30_WritersByStage ==
    /\ initial_sync => {c \in Writers : pc[c] # "unused"} = {1}
    /\ ~initial_sync =>
          /\ {c \in Writers : pc[c] # "unused"} = 1..sync_threads
          /\ skipped_heights = <<>>
    /\ \A c \in Writers : pc[c] = "unused" => (cur[c] = -1 /\ rx[c] = 0)
    /\ (initial_sync /\ lastPull.tag = "Init") =>
          \E d \in SUBSET (0..MaxDbHeight) :
              /\ get_bestblock_info(d) = db_bestblock
              /\ skipped_heights = blocksSelectSkippedHeights(d, service_sync_from)

\* an initial sync configured with two threads has pushed two blocks, a skipped
\* height among them, with its one writer
C30_Witness ==
    /\ initial_sync
    /\ sync_threads = MaxSyncThreads
    /\ pc[MaxSyncThreads] = "unused"
    /\ db_bestblock > 0
    /\ Len(pushed) >= 2
    /\ \E i \in 1..Len(pushed) : pushed[i] < db_bestblock
\* C31: decoding the hex encoding of a hash yields the same hash, and
\* decoding rejects every text whose length is not two digits per byte or
\* that holds a character that is no hex digit.
IsHexChar(c) == c \in Range(HexLower) \cup Range(HexUpper)

C31_HexRoundTrip ==
    hx_pc = "done" =>
        /\ hx_hash.some => (hx_ret.tag = "Ok" /\ hx_ret.hash = hx_hash.v)
        /\ (Len(hx_str) # 2 * HashBytes \/ \E i \in 1..Len(hx_str) : ~IsHexChar(hx_str[i]))
               => hx_ret.tag = "Err"

\* C31 witness: a hash with letters and figures among its digits went through
\* the round trip.
C31_Witness ==
    /\ hx_pc = "done"
    /\ hx_hash.some
    /\ hx_hash.v[1] = 171
    /\ hx_hash.v[2] = 9
    /\ hx_ret.tag = "Ok"

\* C32: the frontier heights the generator yields, i.e. those pulled once the
\* skipped list is exhausted, are max(S, db_next), max(S, db_next) + 1, ...
\* without a gap or a repeat, whatever the node height does between the pulls.
\* (Every skipped height is below the best block, so the frontier heights are
\* the emitted heights from max(S, db_next) on.)
FrontierStart == Max(service_sync_from, db_next_height(db_bestblock))

FrontierEmitted == SelectSeq(emitted, LAMBDA h : h >= FrontierStart)

C32_FrontierConsecutive ==
    /\ \A i \in 1..Len(FrontierEmitted) : FrontierEmitted[i] = FrontierStart + i - 1
    /\ \A i \in 1..Len(emitted) :
          IF emitted[i] >= FrontierStart
          THEN \A j \in i..Len(emitted) : emitted[j] >= FrontierStart
          ELSE \* a replayed height: in the range and below the best block
               initial_sync /\ service_sync_from <= emitted[i] /\ emitted[i] < db_bestblock

\* C32 witness: a skipped height was replayed, then two frontier heights were
\* pulled with a status update between the two pulls.
C32_Witness ==
    /\ Len(emitted) >= 3
    /\ emitted[1] < FrontierStart
    /\ Len(FrontierEmitted) >= 2
    /\ node_syncing_height # 0
    /\ node_syncing_hash # DefaultHash

\* C36: while the node height held in IndexerStatus is below 3 and no skipped
\* height is left, a pull yields no height and does not abort the task.
C36_NoFrontierBelowDepth ==
    [][(node_syncing_height < ConfirmationDepth /\ skipped_heights = <<>>)
         => /\ emitted' = emitted
            /\ (lastPull'.tag = "Panic" => lastPull.tag = "Panic")]_vars

\* C33: a consumer that got absent from next() leaves a drained pipeline: the
\* pending map is empty and a pull of the height generator yields nothing,
\* with one consumer and with several.
C33_AbsentMeansDrained ==
    \A c \in Writers :
        pc[c] = "done" => (DOMAIN blocks = {} /\ Pull.ret.tag = "None")

\* C33 witness: two consumers got absent after blocks were returned and the
\* node height has grown since the generator ended.
C33_Witness ==
    /\ jobs = 2
    /\ pc[1] = "done"
    /\ pc[2] = "done"
    /\ Len(returned) >= 2
    /\ next_height <= node_syncing_height - ConfirmationDepth

NextInProgress == {c \in Writers : pc[c] \in {"subscribe", "scan", "recv"}}

ErrorFree == sync_pc # "panicked" /\ \A c \in Writers : pc[c] \notin {"failed", "panicked"}

C37_ReturnedExactlyOnce ==
    ErrorFree =>
        /\ Cardinality(Range(returned)) = Len(returned)
        /\ Range(returned) \cap DOMAIN blocks = {}
        /\ Range(returned) \cup DOMAIN blocks = Range(emitted)
        /\ AllWritersDone => Range(returned) = Range(emitted)

\* C37 witness: two consumers have both received absent after at least three
\* heights were pulled and returned.
C37_Witness ==
    /\ jobs = 2
    /\ AllWritersDone
    /\ ErrorFree
    /\ Len(emitted) >= 3
    /\ Len(returned) = Len(emitted)

\* C39: neither unreachable! of prefetch is hit: no height is pulled twice in
\* a run, and every fetch task that has not written its result still has its
\* in-flight slot in the pending map.
C39_AssertionsNeverHit ==
    /\ hit = {}
    /\ Cardinality(Range(emitted)) = Len(emitted)
    /\ fetching = {h \in DOMAIN blocks : blocks[h] = "None"}

\* C39 witness: replayed heights and frontier heights were pulled, a ready
\* slot was removed while a fetch was in flight, and that fetch has written
\* its result since.
C39_Witness ==
    /\ \E i \in 1..Len(emitted) : IsSkipped(emitted[i])
    /\ \E i \in 1..Len(emitted) : ~IsSkipped(emitted[i])
    /\ \E h \in DOMAIN blocks : blocks[h] # "None" /\ \E i \in 1..Len(returned) : returned[i] > h
    /\ fetching # {}

\* the mutex p is waiting for, "" if it waits for none
WantsMutex(p) ==
    IF lk_pc[p] \in {"prefetch", "scan", "f_blocks"} THEN "blocks"
    ELSE IF lk_pc[p] = "p_heights" THEN "heights"
    ELSE IF lk_pc[p] \in {"subscribe", "f_tx"} THEN "blocks_tx"
    ELSE ""

\* position of p in the queue of the status lock, 0 if it is not queued
QueuePos(p) ==
    IF \E i \in 1..Len(lk_rw.queue) : lk_rw.queue[i][1] = p
    THEN CHOOSE i \in 1..Len(lk_rw.queue) : lk_rw.queue[i][1] = p
    ELSE 0

\* the tasks that have to act before p gets the lock it waits for
Blockers(p) ==
    IF WantsMutex(p) # ""
    THEN {q \in Procs : lk_held[WantsMutex(p)] = q}
    ELSE IF QueuePos(p) > 0
    THEN {lk_rw.queue[i][1] : i \in 1..(QueuePos(p) - 1)}
           \cup {q \in Procs : lk_rw.writer = q}
           \cup (IF lk_rw.queue[QueuePos(p)][2] = "w" THEN lk_rw.readers ELSE {})
    ELSE {}

\* the tasks of W that wait only for tasks of W
Stuck(W) == {p \in W : Blockers(p) # {} /\ Blockers(p) \subseteq W}

RECURSIVE Deadlocked(_)
\* the largest set of tasks that wait for locks only its own tasks can release
Deadlocked(W) == IF Stuck(W) = W THEN W ELSE Deadlocked(Stuck(W))

\* C38: no set of tasks waits for locks that only tasks of the set can
\* release: the tasks of prefetch(), of the fetches, of next() and of the
\* status loop never deadlock on blocks, heights, blocks_tx and status.
C38_NoLockDeadlock == Deadlocked(Procs) = {}

\* C38 witness: a fetch task that holds blocks waits for blocks_tx while a
\* consumer subscribes, another task waits for blocks, and the status loop
\* has queued a write.
C38_Witness ==
    /\ \E k \in 1..LockHeights :
          /\ lk_pc[FetchTask(k)] = "f_tx"
          /\ lk_held["blocks_tx"] \in Consumers
    /\ \E p \in Procs : lk_pc[p] \in {"prefetch", "scan", "f_blocks"}
    /\ \E i \in 1..Len(lk_rw.queue) : lk_rw.queue[i] = <<StatusLoop, "w">>

====
